---- MODULE Spec2Model ----
(***************************************************************************)
(* Verification model of the GDZ ingestion pipeline (apps/worker).         *)
(*                                                                         *)
(* Part I   - the checkpointed LLM correction job                          *)
(*            (llm_ocr_correct.correct_normalized_pages and its caller     *)
(*            ingestion.run_llm_normalize_only).  Specification: Spec.     *)
(***************************************************************************)
EXTENDS Integers, Sequences, FiniteSets, TLC

(***************************************************************************)
(* Bounds of the model.                                                    *)
(***************************************************************************)
NumPages == 2          \* pages of the normalized file
MaxRuns  == 2          \* job runs (start, kill, restart ...) in one behaviour

(***************************************************************************)
(* Program constants.                                                      *)
(***************************************************************************)
llm_gate_threshold == 70

Pages == 0 .. (NumPages - 1)

\* Page texts are stripped texts: "" is an empty page, "p" a normalized page
\* text, "c" a text returned by the LLM that differs from the input.
InputTexts == {"", "p"}
LlmTexts   == {"", "c"}
Texts      == InputTexts \cup LlmTexts

\* Quality scores of a page (0-100): below and above the gate threshold.
Scores == {60, 85}

NoText == [i \in Pages |-> ""]

\* Arguments of one call of correct_normalized_pages.
\*   job          - called from run_llm_normalize_only (checkpoint path and
\*                  cancel_check wired, no quality_scores)
\*   has_key      - OPENAI_API_KEY is set
\*   ckpt         - checkpoint_path is given
\*   scores_given - quality_scores is given with one score per page
JobArgs == [job |-> TRUE, has_key |-> TRUE, ckpt |-> TRUE,
            scores_given |-> FALSE, scores |-> [i \in Pages |-> 0]]

\* A direct call with quality_scores, with or without a checkpoint path.
DirectArgs ==
    { [job |-> FALSE, has_key |-> TRUE, ckpt |-> c, scores_given |-> TRUE, scores |-> s] :
         c \in BOOLEAN, s \in [Pages -> Scores] }

\* The call of scripts/dev/test_llm_gate.py: no API key, every score above the threshold.
NoKeyArgs == [job |-> FALSE, has_key |-> FALSE, ckpt |-> FALSE,
              scores_given |-> TRUE, scores |-> [i \in Pages |-> 85]]


VARIABLES
    \* ---- files and stores -------------------------------------------------
    normFile,        \* normalized text file of the Source: [Pages -> Texts]
    ckptFile,        \* checkpoint file: [state, done, text]
    dbPages,         \* ocr_text of the Source's Page rows: [Pages -> Texts]
    cancelKey,       \* redis key cancel_llm:{pdf_source_id}
    \* ---- in-memory state of the running call ------------------------------
    pc,              \* position of the job
    args,            \* arguments of the call
    batch_size,
    page_texts,
    result,
    done_indices,
    batch_idx,
    indices_to_send,
    saveNext,        \* where the job continues after the checkpoint write
    \* ---- history (ghost) variables ----------------------------------------
    runNo,           \* number of runs started so far
    calls,           \* LLM requests issued by the current run
    doneAtStart,     \* done set restored from the checkpoint at start
    completed,       \* pages of finished batches that were skipped, restored or corrected
    lastOutcome,     \* outcome of the last LLM call of the run
    lastSent,        \* pages of the last LLM call of the run
    prevRun,         \* what the previous run had when it was killed
    dbAtStart,       \* the Page rows' texts when the current run started
    cancelSeen       \* the current run's cancel_check returned True

ckVars == <<normFile, ckptFile, dbPages, cancelKey, pc, args, batch_size, page_texts,
            result, done_indices, batch_idx, indices_to_send, saveNext, runNo, calls,
            doneAtStart, completed, lastOutcome, lastSent, prevRun, dbAtStart,
            cancelSeen>>

(***************************************************************************)
(* Part II - ingestion runs against the relational store                   *)
(* (ingestion.process_pdf_source, import_from_normalized_file,             *)
(* import_from_normalized_file_llm, reanalyze_pdf_source).                 *)
(* Specifications: SpecDB, SpecReanalyze.                                  *)
(***************************************************************************)
VARIABLES
    book,            \* book_id of each Source
    npages,          \* pages of each Source's document / normalized file
    normExists,      \* the Source's normalized file exists
    status,          \* committed PdfSource.status of each Source
    db,              \* committed rows of pdf_pages, problems, section_theory
    rsrc,            \* the Source a run works on
    rmode,           \* the job a run executes
    rpc,             \* position of each run
    ridx,            \* loop index of each run (page, paragraph)
    tx,              \* each run's session: flushed, uncommitted deletes and inserts
    rres,            \* result status each run returned
    parsed,          \* paragraphs whose blocks distribute_batches collected
    cancelImport,    \* redis key cancel_import_db:{pdf_source_id}
    committed,       \* history: ids of the rows whose change by a run was committed
    reentry,         \* history: status found by a run that entered during another run
    failedAt         \* history: position at which a run failed

dbVars == <<book, npages, normExists, status, db, rsrc, rmode, rpc, ridx, tx, rres, parsed,
            cancelImport, committed, reentry, failedAt>>

(***************************************************************************)
(* Part III - single calls of the text and LLM helpers (llm.structured,    *)
(* llm_distribute.call_llm_*, segmentation, document_map): the call with   *)
(* its arguments, and what it returned, raised and wrote.                  *)
(***************************************************************************)
VARIABLES
    call,            \* the function called and its arguments
    ret              \* the outcome of the call

fnVars == <<call, ret>>

vars == <<ckVars, dbVars, fnVars>>

NoCall == [fn |-> "none"]
NoRet  == [done |-> FALSE]

\* No helper call is looked at.
FnIdle == call = NoCall /\ ret = NoRet

\* Bounds of Part II.
PagesPerSource    == 2    \* pages of a Source in SpecDB
NumParagraphs     == 2    \* paragraphs distribute_batches sends to the LLM
MaxReanalyzePages == 51   \* pages of the large Source in SpecReanalyze
MaxParts          == 2    \* entries of a problem block's parts list
MaxRawLen         == 3    \* tokens of an LLM response
NumLinkProblems   == 2    \* stored Problems of the Book in SpecLink
MaxAnswers        == 2    \* parsed answers passed to link_answers_to_problems
MaxLines          == 2    \* lines of the text given to parse_answers_from_text
MaxLineLen        == 3    \* tokens of one such line
MaxSegTokens      == 4    \* tokens of the one-line pages of SpecSegment
MaxHeaderLines    == 3    \* lines of the pages of SpecHeader
MaxHeaderTokens   == 2    \* tokens of one such line
MaxMapItems       == 4    \* lines and page breaks of a document of SpecMap
BlankRun          == 9    \* pages that a run of blank pages advances
MaxEnums          == 3    \* enumerators of a text of SpecNumbering
MaxStripLines     == 4    \* lines of a page of SpecStrip
MaxZone           == 2    \* largest top_bottom_n of SpecStrip
MaxBlocks         == 3    \* blocks that preprocess_blocks returns in SpecBlocks

\* process_pdf_source commits after every 10th imported page,
\* reanalyze_pdf_source after every 50th reanalysed page.
FullCommitEvery      == 10
MinPageLen == 10
MinProblemLen == 20
MinSegmentLen == 15
ReanalyzeCommitEvery == 50

Sources == {1, 2}
Books   == {1, 2}
Runs    == {1, 2}

EmptyTx == [del |-> {}, ins |-> {}]

\* The store while only the correction job of Part I is looked at.
DbIdle ==
    /\ book = [s \in Sources |-> 1]
    /\ npages = [s \in Sources |-> 0]
    /\ normExists = [s \in Sources |-> FALSE]
    /\ status = [s \in Sources |-> "done"]
    /\ db = {}
    /\ rsrc = [r \in Runs |-> 1]
    /\ rmode = [r \in Runs |-> "none"]
    /\ rpc = [r \in Runs |-> "idle"]
    /\ ridx = [r \in Runs |-> 0]
    /\ tx = [r \in Runs |-> EmptyTx]
    /\ rres = [r \in Runs |-> "none"]
    /\ parsed = [r \in Runs |-> {}]
    /\ cancelImport = [s \in Sources |-> FALSE]
    /\ committed = [r \in Runs |-> {}]
    /\ reentry = [r \in Runs |-> "none"]
    /\ failedAt = [r \in Runs |-> "none"]

(***************************************************************************)
(* Pure helpers of llm_ocr_correct.py                                      *)
(***************************************************************************)
AbsentFile == [state |-> "absent", done |-> {}, text |-> NoText]

\* total_batches = (total_pages + batch_size - 1) // batch_size
TotalBatches(bs) == (NumPages + bs - 1) \div bs

Min(a, b) == IF a < b THEN a ELSE b

\* range(start, end) of batch b
BatchRange(b, bs) == { i \in Pages : b * bs <= i /\ i < Min(b * bs + bs, NumPages) }

\* need_llm_set: every page, or with the gate the pages scored below the threshold
NeedLlmSet_NoGate(a) == Pages

NeedLlmSet(a) ==
    IF a.scores_given
    THEN { i \in Pages : a.scores[i] < llm_gate_threshold }
    ELSE Pages

\* the final "if not result[i]: result[i] = page_texts[i]"
FillEmpty(res, texts) == [i \in Pages |-> IF res[i] = "" THEN texts[i] ELSE res[i]]

\* _load_checkpoint: (result, done_indices) from the file; a file that is not
\* valid JSON gives the input texts and an empty done set.
LoadCheckpoint(file, texts) ==
    IF file.state = "ok"
    THEN [result |-> [i \in Pages |-> IF file.text[i] # "" THEN file.text[i] ELSE texts[i]],
          done   |-> file.done]
    ELSE [result |-> texts, done |-> {}]

\* _save_checkpoint: the data written: the done list and the text of each done page
CheckpointData_NoText(res, done) == [state |-> "ok", done |-> done, text |-> NoText]

CheckpointData(res, done) ==
    [state |-> "ok", done |-> done,
     text  |-> [i \in Pages |-> IF i \in done THEN res[i] ELSE ""]]

\* Path.write_text opens the file for writing (truncating it) and then writes:
\* between the two the file holds a prefix of the data.
HalfWritten(file) == [state |-> "partial", done |-> {}, text |-> NoText]

\* "## Страница N" headers make the chunk non-blank whenever a page is sent
ChunkIsBlank(toSend) == toSend = {}

\* _parse_pages_from_response: the (page_num, text) pairs of a response, as a
\* partial function on page indices (a later block of the same page wins;
\* page numbers outside the result list are ignored by the caller).
Responses == UNION { [S -> LlmTexts] : S \in SUBSET Pages }

Running == {"batch", "call", "saving", "returned", "written"}
Stopped == {"idle", "killed", "cancelled", "done", "finished"}

NoPrev == [killed |-> FALSE, job |-> FALSE, completed |-> {}, afterBatch1 |-> FALSE,
           calls |-> 0]

(***************************************************************************)
(* Initial state: the Source went through OCR and normalization; its       *)
(* normalized file and its Page rows hold the normalized texts; no         *)
(* checkpoint exists and no job runs.                                      *)
(***************************************************************************)
CkInit ==
    /\ normFile \in [Pages -> InputTexts]
    /\ dbPages = normFile
    /\ ckptFile = AbsentFile
    /\ cancelKey = FALSE
    /\ pc = "idle"
    /\ args = JobArgs
    /\ batch_size \in 1 .. NumPages
    /\ page_texts = normFile
    /\ result = NoText
    /\ done_indices = {}
    /\ batch_idx = 0
    /\ indices_to_send = {}
    /\ saveNext = "batch"
    /\ runNo = 0
    /\ calls = 0
    /\ doneAtStart = {}
    /\ completed = {}
    /\ lastOutcome = "none"
    /\ lastSent = {}
    /\ prevRun = NoPrev
    /\ dbAtStart = normFile
    /\ cancelSeen = FALSE
    /\ DbIdle
    /\ FnIdle

\* The correction job while only the ingestion runs of Part II are looked at.
CkIdle ==
    /\ normFile = NoText
    /\ dbPages = NoText
    /\ ckptFile = AbsentFile
    /\ cancelKey = FALSE
    /\ pc = "idle"
    /\ args = JobArgs
    /\ batch_size = 1
    /\ page_texts = NoText
    /\ result = NoText
    /\ done_indices = {}
    /\ batch_idx = 0
    /\ indices_to_send = {}
    /\ saveNext = "batch"
    /\ runNo = 0
    /\ calls = 0
    /\ doneAtStart = {}
    /\ completed = {}
    /\ lastOutcome = "none"
    /\ lastSent = {}
    /\ prevRun = NoPrev
    /\ dbAtStart = NoText
    /\ cancelSeen = FALSE

(***************************************************************************)
(* correct_normalized_pages, entry: early return without an API key, else  *)
(* the gate set, the checkpoint load and the start of the batch loop.      *)
(* run_llm_normalize_only reads page_texts from the normalized file.       *)
(***************************************************************************)
StartRun(a) ==
    /\ UNCHANGED <<dbVars, fnVars>>
    /\ pc \in Stopped
    /\ runNo < MaxRuns
    /\ runNo' = runNo + 1
    /\ args' = a
    /\ page_texts' = normFile
    /\ batch_idx' = 0
    /\ indices_to_send' = {}
    /\ saveNext' = "batch"
    /\ lastOutcome' = "none"
    /\ lastSent' = {}
    /\ IF ~a.has_key
       THEN /\ pc' = "finished"
            /\ result' = normFile
            /\ done_indices' = {}
            /\ doneAtStart' = {}
            /\ completed' = {}
       ELSE LET ld == IF a.ckpt THEN LoadCheckpoint(ckptFile, normFile)
                                ELSE [result |-> normFile, done |-> {}]
            IN  /\ pc' = "batch"
                /\ result' = ld.result
                /\ done_indices' = ld.done
                /\ doneAtStart' = ld.done
                /\ completed' = ld.done
    /\ calls' = 0
    /\ dbAtStart' = dbPages
    /\ cancelSeen' = FALSE
    /\ prevRun' = IF pc = "killed" THEN prevRun ELSE NoPrev
    /\ UNCHANGED <<normFile, ckptFile, dbPages, cancelKey, batch_size>>

\* cancel_check of run_llm_normalize_only: true iff the redis key is set (the
\* key is deleted by the check); a direct call has no cancel_check.
CancelObserved == args.job /\ cancelKey

\* The head of one loop iteration, up to the LLM request (lines 173-224).
BatchStep ==
    /\ UNCHANGED <<dbVars, fnVars>>
    /\ pc = "batch"
    /\ batch_idx < TotalBatches(batch_size)
    /\ LET rng    == BatchRange(batch_idx, batch_size)
           need   == NeedLlmSet(args)
           toSend == { i \in rng : i \in need /\ i \notin done_indices }
           skip   == { i \in rng : i \notin need }
           res1   == [i \in Pages |-> IF i \in skip THEN page_texts[i] ELSE result[i]]
       IN  IF CancelObserved
           THEN \* lines 174-184: fill, save the checkpoint, raise LLMCancelRequested
                /\ cancelKey' = FALSE
                /\ cancelSeen' = TRUE
                /\ result' = FillEmpty(result, page_texts)
                /\ IF args.ckpt
                   THEN /\ ckptFile' = HalfWritten(ckptFile)
                        /\ pc' = "saving"
                        /\ saveNext' = "cancelled"
                   ELSE /\ pc' = "cancelled"
                        /\ UNCHANGED <<ckptFile, saveNext>>
                /\ UNCHANGED <<done_indices, batch_idx, indices_to_send, calls,
                               completed, lastSent>>
           ELSE IF args.ckpt /\ rng \subseteq done_indices
           THEN \* lines 188-191: the whole batch is done already
                /\ batch_idx' = batch_idx + 1
                /\ completed' = completed \cup rng
                /\ UNCHANGED <<cancelSeen, cancelKey, result, ckptFile, pc, saveNext, done_indices,
                               indices_to_send, calls, lastSent>>
           ELSE IF toSend = {}
           THEN \* lines 195-203: only gate-skipped pages, no save
                /\ result' = res1
                /\ done_indices' = done_indices \cup skip
                /\ batch_idx' = batch_idx + 1
                /\ completed' = completed \cup rng
                /\ UNCHANGED <<cancelSeen, cancelKey, ckptFile, pc, saveNext, indices_to_send, calls,
                               lastSent>>
           ELSE IF ChunkIsBlank(toSend)
           THEN \* lines 214-222
                /\ result' = [i \in Pages |-> IF i \in toSend THEN page_texts[i] ELSE res1[i]]
                /\ done_indices' = done_indices \cup skip \cup toSend
                /\ IF args.ckpt
                   THEN /\ ckptFile' = HalfWritten(ckptFile)
                        /\ pc' = "saving"
                        /\ saveNext' = "batch"
                        /\ UNCHANGED <<batch_idx, completed>>
                   ELSE /\ batch_idx' = batch_idx + 1
                        /\ completed' = completed \cup rng
                        /\ UNCHANGED <<ckptFile, pc, saveNext>>
                /\ UNCHANGED <<cancelSeen, cancelKey, indices_to_send, calls, lastSent>>
           ELSE \* lines 224-234: the request is sent
                /\ result' = res1
                /\ done_indices' = done_indices \cup skip
                /\ indices_to_send' = toSend
                /\ calls' = calls + 1
                /\ lastSent' = toSend
                /\ pc' = "call"
                /\ UNCHANGED <<cancelSeen, cancelKey, ckptFile, saveNext, batch_idx, completed>>
    /\ UNCHANGED <<normFile, dbPages, args, batch_size, page_texts, runNo, doneAtStart,
                   lastOutcome, prevRun, dbAtStart>>

\* After a batch: save the checkpoint when a path is given, else go on.
AfterBatch(res, done, compl) ==
    /\ result' = res
    /\ done_indices' = done
    /\ indices_to_send' = {}
    /\ IF args.ckpt
       THEN /\ ckptFile' = HalfWritten(ckptFile)
            /\ pc' = "saving"
            /\ saveNext' = "batch"
            /\ UNCHANGED <<batch_idx, completed>>
       ELSE /\ pc' = "batch"
            /\ batch_idx' = batch_idx + 1
            /\ completed' = compl
            /\ UNCHANGED <<ckptFile, saveNext>>

\* The pages of the current batch that count as worked off when the batch ends.
BatchCompleted ==
    LET rng == BatchRange(batch_idx, batch_size)
    IN  IF lastOutcome = "failed" /\ saveNext = "batch" /\ pc = "saving"
        THEN rng \ indices_to_send
        ELSE rng

\* The LLM answered (lines 235-246): every (page_num, text) of the response is
\* stored, the sent pages are marked done.
LLMSuccess(resp) ==
    /\ UNCHANGED <<dbVars, fnVars>>
    /\ UNCHANGED <<dbAtStart, cancelSeen>>
    /\ pc = "call"
    /\ LET res1 == [i \in Pages |-> IF i \in DOMAIN resp THEN resp[i] ELSE result[i]]
           res2 == [i \in Pages |-> IF i \in indices_to_send /\ res1[i] = ""
                                    THEN page_texts[i] ELSE res1[i]]
       IN  AfterBatch(res2, done_indices \cup indices_to_send,
                      completed \cup BatchRange(batch_idx, batch_size))
    /\ lastOutcome' = "ok"
    /\ UNCHANGED <<normFile, dbPages, cancelKey, args, batch_size, page_texts, runNo, calls,
                   doneAtStart, lastSent, prevRun>>

\* The LLM call raised (lines 247-252): the sent pages get their input text
\* back; done_indices is left as it is.
LLMFailure ==
    /\ UNCHANGED <<dbVars, fnVars>>
    /\ UNCHANGED <<dbAtStart, cancelSeen>>
    /\ pc = "call"
    /\ LET res1 == [i \in Pages |-> IF i \in indices_to_send THEN page_texts[i] ELSE result[i]]
       IN  /\ result' = res1
           /\ UNCHANGED done_indices
           /\ IF args.ckpt
              THEN /\ ckptFile' = HalfWritten(ckptFile)
                   /\ pc' = "saving"
                   /\ saveNext' = "batch"
                   /\ UNCHANGED <<batch_idx, completed, indices_to_send>>
              ELSE /\ pc' = "batch"
                   /\ batch_idx' = batch_idx + 1
                   /\ completed' = completed \cup
                                    (BatchRange(batch_idx, batch_size) \ indices_to_send)
                   /\ indices_to_send' = {}
                   /\ UNCHANGED <<ckptFile, saveNext>>
    /\ lastOutcome' = "failed"
    /\ UNCHANGED <<normFile, dbPages, cancelKey, args, batch_size, page_texts, runNo, calls,
                   doneAtStart, lastSent, prevRun>>

\* _save_checkpoint, the write after the truncation: the file is complete.
SaveEnd ==
    /\ UNCHANGED <<dbVars, fnVars>>
    /\ UNCHANGED <<dbAtStart, cancelSeen>>
    /\ pc = "saving"
    /\ ckptFile' = CheckpointData(result, done_indices)
    /\ IF saveNext = "cancelled"
       THEN /\ pc' = "cancelled"
            /\ UNCHANGED <<batch_idx, completed>>
       ELSE /\ pc' = "batch"
            /\ batch_idx' = batch_idx + 1
            /\ completed' = completed \cup BatchCompleted
    /\ indices_to_send' = {}
    /\ UNCHANGED <<normFile, dbPages, cancelKey, args, batch_size, page_texts, result,
                   done_indices, saveNext, runNo, calls, doneAtStart,
                   lastOutcome, lastSent, prevRun>>

\* End of the loop (lines 259-268): fill, delete the checkpoint, return the
\* result; the locals of the call are gone.
FinishLoop ==
    /\ UNCHANGED <<dbVars, fnVars>>
    /\ UNCHANGED <<dbAtStart, cancelSeen>>
    /\ pc = "batch"
    /\ batch_idx = TotalBatches(batch_size)
    /\ result' = FillEmpty(result, page_texts)
    /\ ckptFile' = IF args.ckpt /\ ckptFile.state # "absent" THEN AbsentFile ELSE ckptFile
    /\ pc' = IF args.job THEN "returned" ELSE "finished"
    /\ done_indices' = {}
    /\ indices_to_send' = {}
    /\ UNCHANGED <<normFile, dbPages, cancelKey, args, batch_size, page_texts,
                   batch_idx, saveNext, runNo, calls, doneAtStart, completed,
                   lastOutcome, lastSent, prevRun>>

\* run_llm_normalize_only, line 595: write_normalized_md(corrected)
WriteNormalized ==
    /\ UNCHANGED <<dbVars, fnVars>>
    /\ UNCHANGED <<dbAtStart, cancelSeen>>
    /\ pc = "returned"
    /\ normFile' = result
    /\ pc' = "written"
    /\ UNCHANGED <<ckptFile, dbPages, cancelKey, args, batch_size, page_texts, result,
                   done_indices, batch_idx, indices_to_send, saveNext, runNo, calls,
                   doneAtStart, completed, lastOutcome, lastSent, prevRun>>

\* run_llm_normalize_only, line 597: import_from_normalized_file rewrites the
\* Source's Page rows from the file.
ImportAfterNormalize ==
    /\ UNCHANGED <<dbVars, fnVars>>
    /\ UNCHANGED <<dbAtStart, cancelSeen>>
    /\ pc = "written"
    /\ dbPages' = normFile
    /\ pc' = "done"
    /\ UNCHANGED <<normFile, ckptFile, cancelKey, args, batch_size, page_texts, result,
                   done_indices, batch_idx, indices_to_send, saveNext, runNo, calls,
                   doneAtStart, completed, lastOutcome, lastSent, prevRun>>

\* The worker process is killed: everything in memory is gone, files stay.
Kill ==
    /\ UNCHANGED <<dbVars, fnVars>>
    /\ UNCHANGED <<dbAtStart, cancelSeen>>
    /\ pc \in Running
    /\ prevRun' = [killed |-> TRUE, job |-> args.job, completed |-> completed,
                   afterBatch1 |-> /\ pc = "batch"
                                   /\ batch_idx = 1
                                   /\ args.ckpt
                                   /\ ckptFile.state = "ok",
                   calls |-> calls]
    /\ pc' = "killed"
    /\ result' = NoText
    /\ done_indices' = {}
    /\ indices_to_send' = {}
    /\ completed' = {}
    /\ UNCHANGED <<normFile, ckptFile, dbPages, cancelKey, args, batch_size, page_texts,
                   batch_idx, saveNext, runNo, calls, doneAtStart,
                   lastOutcome, lastSent>>

\* debug.cancel_llm_normalize for a started job: setex cancel_llm:{id} 300 "1"
RequestCancel ==
    /\ UNCHANGED <<dbVars, fnVars>>
    /\ UNCHANGED <<dbAtStart, cancelSeen>>
    /\ pc \in Running
    /\ args.job
    /\ cancelKey' = TRUE
    /\ UNCHANGED <<normFile, ckptFile, dbPages, pc, args, batch_size, page_texts, result,
                   done_indices, batch_idx, indices_to_send, saveNext, runNo, calls,
                   doneAtStart, completed, lastOutcome, lastSent, prevRun>>

\* The key's time to live (300 s) runs out.
CancelKeyExpires ==
    /\ UNCHANGED <<dbVars, fnVars>>
    /\ UNCHANGED <<dbAtStart, cancelSeen>>
    /\ cancelKey
    /\ cancelKey' = FALSE
    /\ UNCHANGED <<normFile, ckptFile, dbPages, pc, args, batch_size, page_texts, result,
                   done_indices, batch_idx, indices_to_send, saveNext, runNo, calls,
                   doneAtStart, completed, lastOutcome, lastSent, prevRun>>

\* The LLM-normalization job: run_llm_normalize_only, its kill and restart,
\* and the operator's cancel request.
JobNext ==
    \/ StartRun(JobArgs)
    \/ BatchStep
    \/ \E resp \in Responses : LLMSuccess(resp)
    \/ LLMFailure
    \/ SaveEnd
    \/ FinishLoop
    \/ WriteNormalized
    \/ ImportAfterNormalize
    \/ Kill
    \/ RequestCancel
    \/ CancelKeyExpires

Init == CkInit

Spec == Init /\ [][JobNext]_vars

(***************************************************************************)
(* Direct calls of correct_normalized_pages with quality_scores            *)
(* (specification SpecGate).  The inputs of the call are its arguments,    *)
(* the page texts and the checkpoint file found under the checkpoint path: *)
(* none, or one that a killed run of the job left there for these pages.   *)
(***************************************************************************)
BatchUnion(B, bs) == UNION { BatchRange(b, bs) : b \in B }

LeftoverCheckpoints(texts, bs) ==
    {AbsentFile, HalfWritten(AbsentFile)} \cup
    { CheckpointData(res, BatchUnion(B, bs)) :
        B \in SUBSET (0 .. TotalBatches(bs) - 1),
        res \in { r \in [Pages -> Texts] : \A i \in Pages : r[i] \in {"c", "", texts[i]} } }

GateInit ==
    /\ normFile \in [Pages -> InputTexts]
    /\ dbPages = normFile
    /\ batch_size \in 1 .. NumPages
    /\ ckptFile \in LeftoverCheckpoints(normFile, batch_size)
    /\ cancelKey = FALSE
    /\ pc = "idle"
    /\ args = JobArgs
    /\ page_texts = normFile
    /\ result = NoText
    /\ done_indices = {}
    /\ batch_idx = 0
    /\ indices_to_send = {}
    /\ saveNext = "batch"
    /\ runNo = 0
    /\ calls = 0
    /\ doneAtStart = {}
    /\ completed = {}
    /\ lastOutcome = "none"
    /\ lastSent = {}
    /\ prevRun = NoPrev
    /\ dbAtStart = normFile
    /\ cancelSeen = FALSE
    /\ DbIdle
    /\ FnIdle

GateStart(a) == runNo = 0 /\ StartRun(a)

GateNext ==
    \/ \E a \in DirectArgs \cup {NoKeyArgs} : GateStart(a)
    \/ BatchStep
    \/ \E resp \in Responses : LLMSuccess(resp)
    \/ LLMFailure
    \/ SaveEnd
    \/ FinishLoop

SpecGate == GateInit /\ [][GateNext]_vars

(***************************************************************************)
(* The job and the operator's cancel request (specification SpecCancel):   *)
(* the job starts with no checkpoint or with one an earlier, killed run    *)
(* left; it is cancelled and started again, never killed.                  *)
(***************************************************************************)
CancelNext ==
    \/ StartRun(JobArgs)
    \/ BatchStep
    \/ \E resp \in Responses : LLMSuccess(resp)
    \/ LLMFailure
    \/ SaveEnd
    \/ FinishLoop
    \/ WriteNormalized
    \/ ImportAfterNormalize
    \/ RequestCancel
    \/ CancelKeyExpires

SpecCancel == GateInit /\ [][CancelNext]_vars

(***************************************************************************)
(* The operator asks to cancel the first job of the Source only            *)
(* (specification SpecCancelFirst); a second job is started afterwards.    *)
(***************************************************************************)
RequestCancelFirst == runNo = 1 /\ RequestCancel

CancelFirstNext ==
    \/ StartRun(JobArgs)
    \/ BatchStep
    \/ \E resp \in Responses : LLMSuccess(resp)
    \/ LLMFailure
    \/ SaveEnd
    \/ FinishLoop
    \/ WriteNormalized
    \/ ImportAfterNormalize
    \/ RequestCancelFirst
    \/ CancelKeyExpires

SpecCancelFirst == GateInit /\ [][CancelFirstNext]_vars

\* C29: a cancel request cancels only the job it was issued for: when every
\* request is issued while the first job of the Source runs, no later job of
\* that Source has its cancel_check return True.
C29_CancelOnlyOwnJob == cancelSeen => runNo = 1

\* Every checkpoint file the job leaves behind is one of LeftoverCheckpoints.
CheckpointIsLeftover == ckptFile \in LeftoverCheckpoints(page_texts, batch_size)

(***************************************************************************)
(* Claims about the correction job.                                        *)
(***************************************************************************)
\* LLM requests of one uninterrupted run that starts without a checkpoint:
\* one per batch that holds a page needing the LLM.
UninterruptedCalls(a, bs) ==
    Cardinality({ b \in 0 .. TotalBatches(bs) - 1 : BatchRange(b, bs) \cap NeedLlmSet(a) # {} })

\* The second run of the job, started after the first one was killed right
\* after batch 1 was finished and its checkpoint write completed.
ResumedAfterBatch1 ==
    /\ runNo = 2
    /\ args.job
    /\ prevRun.killed
    /\ prevRun.job
    /\ prevRun.afterBatch1

\* C1: a run killed after batch 1 was completed and checkpointed, then resumed
\* with the same checkpoint path and pages: the second run sends no page of the
\* restored done set, and both runs together issue as many LLM calls as one
\* uninterrupted run.
C1_ResumeCallsEqualUninterrupted ==
    /\ (ResumedAfterBatch1 /\ pc = "call") => indices_to_send \cap doneAtStart = {}
    /\ (ResumedAfterBatch1 /\ pc \in {"returned", "written", "done"})
          => prevRun.calls + calls = UninterruptedCalls(args, batch_size)

\* C2: a job killed at any point loses at most the batch in flight: after the
\* restart every page of a batch that was completed before the kill is
\* restored as done (with its text) and is not sent again.
C2_KillLosesAtMostInFlightBatch ==
    (/\ pc = "batch"
     /\ batch_idx = 0
     /\ args.job
     /\ prevRun.killed
     /\ prevRun.job)
        => prevRun.completed \subseteq done_indices

\* C3: the checkpoint file is replaced atomically: at no instant, so neither
\* after a kill nor for a reader, it is half-written.
C3_CheckpointNeverHalfWritten == ckptFile.state # "partial"

\* C8: once the cancel flag was observed at a batch boundary, the job ends with
\* the result 'cancelled', the normalized file and the Page rows are as they
\* were at the start, and the checkpoint on disk is complete: its done set is
\* the set of pages completed so far and it holds the text of each of them.
C8_CancelLeavesValidCheckpoint ==
    (cancelSeen /\ args.job /\ pc \notin {"saving", "killed"})
        => /\ pc = "cancelled"
           /\ normFile = page_texts
           /\ dbPages = dbAtStart
           /\ ckptFile.state = "ok"
           /\ ckptFile.done = completed
           /\ \A i \in completed : ckptFile.text[i] = result[i]

\* C8 witness: a job cancelled after a batch whose page the LLM corrected.
C8_Witness ==
    /\ pc = "cancelled"
    /\ args.job
    /\ \E i \in completed : result[i] = "c" /\ ckptFile.text[i] = "c"
    /\ completed # Pages

\* every page's score is above the gate threshold
AllAbove(a) == a.scores_given /\ \A i \in Pages : a.scores[i] > llm_gate_threshold

\* the batch a page belongs to
BatchOf(i, bs) == BatchRange(i \div bs, bs)

C28_OnlySentPagesChange ==
    [][pc = "call" =>
          \A i \in Pages \ indices_to_send : result'[i] = result[i]]_vars

\* C23: the checkpoint is deleted exactly on success: after a run that was
\* cancelled, and after a run that reached the end of its loop although the
\* LLM call of its last batch failed, the checkpoint file is still present.
C23_CheckpointKeptUnlessSuccess ==
    args.ckpt =>
        /\ pc = "cancelled" => ckptFile.state # "absent"
        /\ (pc \in {"returned", "finished"} /\ lastOutcome = "failed")
              => ckptFile.state # "absent"

\* C10: after a batch whose LLM call failed, the checkpoint on disk records the
\* pages of that batch as done, with their pre-call text.
C10_FailedBatchMarkedDone ==
    (pc = "batch" /\ args.ckpt /\ lastOutcome = "failed")
        => /\ ckptFile.state = "ok"
           /\ lastSent \subseteq ckptFile.done
           /\ \A i \in lastSent : ckptFile.text[i] = page_texts[i]

(***************************************************************************)
(* Part II.  Rows of pdf_pages, problems and section_theory.  A row is     *)
(* named by its table, its owner (the Source of a page or problem, the     *)
(* Book of a theory row), its number (page_num, problem number, section),  *)
(* the run that inserted it (0: before any run) and, for a problem, the    *)
(* run that inserted the page of its source_page_id.  aux is the content   *)
(* that updates change: answer_text set (1) or not (0) for a problem, the  *)
(* Source whose text theory_text holds for a theory row.  hp is            *)
(* Problem.has_parts; a problem_parts row carries the key of its problem   *)
(* and its position (part) in the parts list.                              *)
(***************************************************************************)
PageRow(s, n, by) ==
    [tbl |-> "page", own |-> s, num |-> n, by |-> by, pby |-> by, aux |-> 0,
     hp |-> FALSE, part |-> 0]

ProblemRow(s, n, by, pby, ans) ==
    [tbl |-> "problem", own |-> s, num |-> n, by |-> by, pby |-> pby, aux |-> ans,
     hp |-> FALSE, part |-> 0]

PartRow(s, n, by, pby, k) ==
    [tbl |-> "part", own |-> s, num |-> n, by |-> by, pby |-> pby, aux |-> 0,
     hp |-> FALSE, part |-> k]

TheoryRow(b, sec, by, from) ==
    [tbl |-> "theory", own |-> b, num |-> sec, by |-> by, pby |-> by, aux |-> from,
     hp |-> FALSE, part |-> 0]

RowId(x) == <<x.tbl, x.own, x.num, x.by, x.pby, x.part>>

SourceId(s) == <<"source", s, 0, 0, 0, 0>>

\* PdfPage.pdf_source_id == pdf_source_id
PagesOfSource_AnySource(rows, s) == { x \in rows : x.tbl = "page" }

PagesOfSource(rows, s) == { x \in rows : x.tbl = "page" /\ x.own = s }

\* Problem.source_page_id == p.id
ProblemsOfPage(rows, p) ==
    { x \in rows : x.tbl = "problem" /\ x.own = p.own /\ x.num = p.num /\ x.pby = p.by }

\* ProblemPart.problem_id == q.id; the foreign key is ON DELETE CASCADE
PartsOfProblem(rows, q) ==
    { x \in rows : x.tbl = "part" /\ x.own = q.own /\ x.num = q.num
                                  /\ x.by = q.by /\ x.pby = q.pby }

ProblemsOfPages_None(rows, ps) == {}

\* the problems of the pages ps, with the parts a delete of them cascades to
ProblemsOfPages(rows, ps) ==
    LET qs == UNION { ProblemsOfPage(rows, p) : p \in ps }
    IN  qs \cup UNION { PartsOfProblem(rows, q) : q \in qs }

\* SectionTheory.book_id == book_id
TheoryOfBook(rows, b) == { x \in rows : x.tbl = "theory" /\ x.own = b }

\* What a run's session sees: the committed rows and its own flushed changes.
View(r) == (db \ tx[r].del) \cup tx[r].ins

TxDelete(t, rows) == [del |-> t.del \cup (rows \ t.ins), ins |-> t.ins \ rows]

TxInsert(t, rows) == [del |-> t.del, ins |-> t.ins \cup rows]

TxUpdate(t, old, new) == TxInsert(TxDelete(t, {old}), {new})

Apply(t) == (db \ t.del) \cup t.ins

RowIds(t) == { RowId(x) : x \in t.del \cup t.ins }

\* The session after a step: t stays pending, or db.commit() applies it;
\* ids are the PdfSource rows the commit writes as well.
Session(r, t, doCommit, ids) ==
    /\ db' = IF doCommit THEN Apply(t) ELSE db
    /\ tx' = [tx EXCEPT ![r] = IF doCommit THEN EmptyTx ELSE t]
    /\ committed' = [committed EXCEPT ![r] =
                        IF doCommit THEN @ \cup RowIds(t) \cup ids ELSE @]

InFlight == {"check", "ocr", "delete", "insert", "theory", "finish", "repage",
             "dist", "llminsert"}

\* The except handler of process_pdf_source commits, the others roll back.
FailureCommits_Always(m) == TRUE

FailureCommits(m) == m = "full"

\* The store after every Source was imported once, in order.
InitialRows(bk) ==
    UNION { {PageRow(s, n, 0), ProblemRow(s, n, 0, 0, 0)} :
              s \in Sources, n \in 0 .. (PagesPerSource - 1) }
    \cup { TheoryRow(bk[s], 1, 0, s) :
              s \in { q \in Sources : \A o \in Sources : bk[o] = bk[q] => o <= q } }

DbInit ==
    /\ CkIdle
    /\ FnIdle
    /\ book \in { bk \in [Sources -> Books] : bk[1] = 1 }
    /\ npages = [s \in Sources |-> PagesPerSource]
    /\ normExists = [s \in Sources |-> TRUE]
    /\ status = [s \in Sources |-> "done"]
    /\ db = InitialRows(book)
    /\ rsrc = [r \in Runs |-> 1]
    /\ rmode = [r \in Runs |-> "none"]
    /\ rpc = [r \in Runs |-> "idle"]
    /\ ridx = [r \in Runs |-> 0]
    /\ tx = [r \in Runs |-> EmptyTx]
    /\ rres = [r \in Runs |-> "none"]
    /\ parsed = [r \in Runs |-> {}]
    /\ cancelImport = [s \in Sources |-> FALSE]
    /\ committed = [r \in Runs |-> {}]
    /\ reentry = [r \in Runs |-> "none"]
    /\ failedAt = [r \in Runs |-> "none"]

\* A job is taken from the queue: the run loads its PdfSource row.
Enter(r, s, m) ==
    /\ rpc[r] = "idle"
    /\ rsrc' = [rsrc EXCEPT ![r] = s]
    /\ rmode' = [rmode EXCEPT ![r] = m]
    /\ reentry' = [reentry EXCEPT ![r] =
          IF /\ \E q \in Runs \ {r} : rsrc[q] = s /\ rpc[q] \in InFlight
             /\ status[s] \in {"rendering", "ocr"}
          THEN status[s] ELSE "none"]

Goto(r, label, i) ==
    /\ rpc' = [rpc EXCEPT ![r] = label]
    /\ ridx' = [ridx EXCEPT ![r] = i]

Return(r, res) ==
    /\ Goto(r, "end", 0)
    /\ rres' = [rres EXCEPT ![r] = res]
    /\ parsed' = [parsed EXCEPT ![r] = {}]

(***************************************************************************)
(* process_pdf_source: status "rendering" is committed on entry; the       *)
(* re-entry test reads the status afterwards; then status "ocr", the OCR,  *)
(* and the import.                                                         *)
(***************************************************************************)
StartFull(r, s) ==
    /\ Enter(r, s, "full")
    /\ status' = [status EXCEPT ![s] = "rendering"]
    /\ Session(r, tx[r], TRUE, {SourceId(s)})
    /\ Goto(r, "check", 0)
    /\ UNCHANGED <<book, npages, normExists, rres, parsed, cancelImport, failedAt, ckVars, fnVars>>

FullCheck(r) ==
    /\ rpc[r] = "check"
    /\ IF status[rsrc[r]] = "ocr"
       THEN /\ Return(r, "skipped")
            /\ UNCHANGED <<status, db, tx, committed>>
       ELSE /\ status' = [status EXCEPT ![rsrc[r]] = "ocr"]
            /\ Session(r, tx[r], TRUE, {SourceId(rsrc[r])})
            /\ Goto(r, "ocr", 0)
            /\ UNCHANGED <<rres, parsed>>
    /\ UNCHANGED <<book, npages, normExists, rsrc, rmode, cancelImport, reentry, failedAt, ckVars, fnVars>>

\* OCR, normalization, LLM correction and the artifact files (the normalized
\* file is written): no row changes.
FullOcr(r) ==
    /\ rpc[r] = "ocr"
    /\ normExists' = [normExists EXCEPT ![rsrc[r]] = TRUE]
    /\ Goto(r, "delete", 0)
    /\ UNCHANGED <<book, npages, status, db, rsrc, rmode, tx, rres, parsed,
                   cancelImport, committed, reentry, failedAt, ckVars, fnVars>>

(***************************************************************************)
(* import_from_normalized_file and run_llm_normalize_only's import; both   *)
(* return an error when the normalized file is missing.                    *)
(***************************************************************************)
StartNorm(r, s) ==
    /\ Enter(r, s, "norm")
    /\ IF normExists[s]
       THEN Goto(r, "delete", 0) /\ UNCHANGED <<rres, parsed, failedAt>>
       ELSE Return(r, "error") /\ failedAt' = [failedAt EXCEPT ![r] = "missing"]
    /\ UNCHANGED <<book, npages, normExists, status, db, tx, cancelImport,
                   committed, ckVars, fnVars>>

\* Delete the Source's pages and their problems (the LLM distribution also
\* deletes the theory of the whole Book), then flush.
ImportDelete(r) ==
    /\ rpc[r] = "delete"
    /\ LET s     == rsrc[r]
           pages == PagesOfSource(View(r), s)
           old   == pages \cup ProblemsOfPages(View(r), pages)
                    \cup (IF rmode[r] = "llm" THEN TheoryOfBook(View(r), book[s]) ELSE {})
       IN  Session(r, TxDelete(tx[r], old), FALSE, {})
    /\ Goto(r, IF rmode[r] = "llm" THEN "llminsert" ELSE "insert", 0)
    /\ UNCHANGED <<book, npages, normExists, status, rsrc, rmode, rres, parsed, cancelImport,
                   reentry, failedAt, ckVars, fnVars>>

\* One iteration of the import loop: the page and its segmented problem;
\* process_pdf_source commits when pages_processed % 10 == 0.
ImportPage(r) ==
    /\ rpc[r] = "insert"
    /\ LET s == rsrc[r]
           i == ridx[r]
       IN  /\ Session(r, TxInsert(tx[r], {PageRow(s, i, r), ProblemRow(s, i, r, r, 0)}),
                      rmode[r] = "full" /\ (i + 1) % FullCommitEvery = 0, {})
           /\ Goto(r, IF i + 1 >= npages[s] THEN "theory" ELSE "insert", i + 1)
    /\ UNCHANGED <<book, npages, normExists, status, rsrc, rmode, rres, parsed, cancelImport,
                   reentry, failedAt, ckVars, fnVars>>

\* extract_and_save_section_theory: the row of (book, section) is updated
\* when one exists and inserted otherwise; it commits what it saved.
TheoryStep(r) ==
    /\ rpc[r] = "theory"
    /\ LET s        == rsrc[r]
           existing == { x \in TheoryOfBook(View(r), book[s]) : x.num = 1 }
       IN  IF PagesOfSource(View(r), s) = {}
           THEN UNCHANGED <<db, tx, committed>>
           ELSE IF existing = {}
           THEN Session(r, TxInsert(tx[r], {TheoryRow(book[s], 1, r, s)}), TRUE, {})
           ELSE \E x \in existing :
                    Session(r, TxUpdate(tx[r], x, [x EXCEPT !.aux = s]), TRUE, {})
    /\ Goto(r, "finish", 0)
    /\ UNCHANGED <<book, npages, normExists, status, rsrc, rmode, rres, parsed, cancelImport,
                   reentry, failedAt, ckVars, fnVars>>

\* The final commit; every job but the reanalysis sets status "done".
Finish(r) ==
    /\ rpc[r] = "finish"
    /\ IF rmode[r] = "reanalyze"
       THEN /\ Session(r, tx[r], TRUE, {})
            /\ UNCHANGED status
       ELSE /\ Session(r, tx[r], TRUE, {SourceId(rsrc[r])})
            /\ status' = [status EXCEPT ![rsrc[r]] = "done"]
    /\ Return(r, "success")
    /\ UNCHANGED <<book, npages, normExists, rsrc, rmode, cancelImport, reentry, failedAt, ckVars, fnVars>>

(***************************************************************************)
(* reanalyze_pdf_source: per page, delete its problems and segment again;  *)
(* commit when (i + 1) % 50 == 0.                                          *)
(***************************************************************************)
StartReanalyze(r, s) ==
    /\ Enter(r, s, "reanalyze")
    /\ IF PagesOfSource(db, s) = {}
       THEN Return(r, "skipped")
       ELSE Goto(r, "repage", 0) /\ UNCHANGED <<rres, parsed>>
    /\ UNCHANGED <<book, npages, normExists, status, db, tx, cancelImport, committed, failedAt,
                   ckVars, fnVars>>

ReanalyzePage(r) ==
    /\ rpc[r] = "repage"
    /\ LET s     == rsrc[r]
           i     == ridx[r]
           pages == { p \in PagesOfSource(View(r), s) : p.num = i }
           old   == ProblemsOfPages(View(r), pages)
           new   == { ProblemRow(s, i, r, p.by, 0) : p \in pages }
       IN  /\ Session(r, TxInsert(TxDelete(tx[r], old), new),
                      (i + 1) % ReanalyzeCommitEvery = 0, {})
           /\ Goto(r, IF i + 1 >= npages[s] THEN "theory" ELSE "repage", i + 1)
    /\ UNCHANGED <<book, npages, normExists, status, rsrc, rmode, rres, parsed, cancelImport,
                   reentry, failedAt, ckVars, fnVars>>

(***************************************************************************)
(* import_from_normalized_file_llm: distribute_batches asks the LLM        *)
(* paragraph by paragraph and tests the cancel key before each request;    *)
(* the rewrite starts only after it returned blocks.                       *)
(***************************************************************************)
StartLlm(r, s) ==
    /\ Enter(r, s, "llm")
    /\ IF normExists[s]
       THEN Goto(r, "dist", 0) /\ UNCHANGED <<rres, parsed, failedAt>>
       ELSE Return(r, "error") /\ failedAt' = [failedAt EXCEPT ![r] = "missing"]
    /\ UNCHANGED <<book, npages, normExists, status, db, tx, cancelImport,
                   committed, ckVars, fnVars>>

\* One request of call_llm_paragraph / call_llm_batch: the API call raises,
\* the answer is no valid JSON (or holds no blocks), or it holds blocks.
LlmOutcomes == {"raise", "invalid", "blocks"}

DistStep(r, out) ==
    /\ rpc[r] = "dist"
    /\ IF cancelImport[rsrc[r]]
       THEN /\ cancelImport' = [cancelImport EXCEPT ![rsrc[r]] = FALSE]
            /\ Return(r, "cancelled")
            /\ UNCHANGED failedAt
       ELSE IF out = "raise"
       THEN \* the API call raises: nothing catches it before the except
            \* branch of import_from_normalized_file_llm
            /\ failedAt' = [failedAt EXCEPT ![r] = "dist"]
            /\ Return(r, "error")
            /\ UNCHANGED cancelImport
       ELSE LET got == IF out = "blocks" THEN parsed[r] \cup {ridx[r]} ELSE parsed[r]
            IN  /\ UNCHANGED <<cancelImport, failedAt>>
                /\ IF ridx[r] + 1 < NumParagraphs
                   THEN /\ Goto(r, "dist", ridx[r] + 1)
                        /\ parsed' = [parsed EXCEPT ![r] = got]
                        /\ UNCHANGED rres
                   ELSE IF got = {}
                   THEN Return(r, "error")
                   ELSE /\ Goto(r, "delete", 0)
                        /\ parsed' = [parsed EXCEPT ![r] = got]
                        /\ UNCHANGED rres
    /\ UNCHANGED <<book, npages, normExists, status, db, rsrc, rmode, tx, committed, reentry,
                   ckVars, fnVars>>

\* An entry of a block's parts list: not a dict; a dict with neither
\* part_number nor part_text; a dict with one of them.
PartEntries == {"nodict", "blank", "ok"}

PartsLists == UNION { [1 .. k -> PartEntries] : k \in 0 .. MaxParts }

\* has_parts = isinstance(parts_raw, list) and len(parts_raw) > 0
HasParts(parts_raw) == Len(parts_raw) > 0

\* the entries for which a ProblemPart is added
StoredParts(parts_raw) == { k \in 1 .. Len(parts_raw) : parts_raw[k] = "ok" }

\* Pages, theory and problems of the blocks are added (parts_raw is the parts
\* list of the first problem block); an answers_block entry writes
\* answer_text of the first problem of the Book with its number.
LlmInsert(r, link, parts_raw) ==
    /\ rpc[r] = "llminsert"
    /\ LET s     == rsrc[r]
           first == [ProblemRow(s, 0, r, r, 0) EXCEPT !.hp = HasParts(parts_raw)]
           new   == UNION { {PageRow(s, n, r),
                             IF n = 0 THEN first ELSE ProblemRow(s, n, r, r, 0)} :
                              n \in 0 .. (npages[s] - 1) }
                    \cup { PartRow(s, 0, r, r, k) : k \in StoredParts(parts_raw) }
                    \cup {TheoryRow(book[s], 1, r, s)}
           t     == TxInsert(tx[r], new)
           cands == { x \in Apply(t) :
                        x.tbl = "problem" /\ book[x.own] = book[s] /\ x.num = 0 }
       IN  \E x \in cands :
               Session(r, IF link /\ x.aux = 0
                          THEN TxUpdate(t, x, [x EXCEPT !.aux = 1]) ELSE t,
                       FALSE, {})
    /\ Goto(r, "finish", 0)
    /\ UNCHANGED <<book, npages, normExists, status, rsrc, rmode, rres, parsed, cancelImport,
                   reentry, failedAt, ckVars, fnVars>>

\* cancel_import_db:{pdf_source_id} appears in Redis while the job runs.
CancelImportKeySet(s) ==
    /\ \E r \in Runs : rsrc[r] = s /\ rmode[r] = "llm" /\ rpc[r] \in InFlight
    /\ ~cancelImport[s]
    /\ cancelImport' = [cancelImport EXCEPT ![s] = TRUE]
    /\ UNCHANGED <<book, npages, normExists, status, db, rsrc, rmode, rpc, ridx, tx, rres, parsed,
                   committed, reentry, failedAt, ckVars, fnVars>>

(***************************************************************************)
(* An exception in a run.  process_pdf_source sets status "failed" and     *)
(* commits the session; the other jobs roll the session back.              *)
(***************************************************************************)
Fail(r) ==
    /\ rpc[r] \in InFlight \ {"dist"}
    /\ IF FailureCommits(rmode[r])
       THEN /\ status' = [status EXCEPT ![rsrc[r]] = "failed"]
            /\ Session(r, tx[r], TRUE, {SourceId(rsrc[r])})
       ELSE /\ Session(r, EmptyTx, FALSE, {})
            /\ UNCHANGED status
    /\ failedAt' = [failedAt EXCEPT ![r] = rpc[r]]
    /\ Return(r, "error")
    /\ UNCHANGED <<book, npages, normExists, rsrc, rmode, cancelImport, reentry, ckVars, fnVars>>

DbNext ==
    \/ \E r \in Runs, s \in Sources : StartFull(r, s)
    \/ \E r \in Runs : FullCheck(r)
    \/ \E r \in Runs : FullOcr(r)
    \/ \E r \in Runs, s \in Sources : StartNorm(r, s)
    \/ \E r \in Runs : ImportDelete(r)
    \/ \E r \in Runs : ImportPage(r)
    \/ \E r \in Runs : TheoryStep(r)
    \/ \E r \in Runs : Finish(r)
    \/ \E r \in Runs, s \in Sources : StartReanalyze(r, s)
    \/ \E r \in Runs : ReanalyzePage(r)
    \/ \E r \in Runs, s \in Sources : StartLlm(r, s)
    \/ \E r \in Runs, out \in LlmOutcomes : DistStep(r, out)
    \/ \E r \in Runs, link \in BOOLEAN : LlmInsert(r, link, << >>)
    \/ \E s \in Sources : CancelImportKeySet(s)
    \/ \E r \in Runs : Fail(r)

SpecDB == DbInit /\ [][DbNext]_vars

(***************************************************************************)
(* One import from the normalized file, plain or by LLM distribution       *)
(* (specification SpecImport): the file may be missing, and the first      *)
(* problem block carries any parts list.                                   *)
(***************************************************************************)
ImportInit ==
    /\ CkIdle
    /\ FnIdle
    /\ book \in { bk \in [Sources -> Books] : bk[1] = 1 }
    /\ npages = [s \in Sources |-> PagesPerSource]
    /\ normExists \in [Sources -> BOOLEAN]
    /\ status = [s \in Sources |-> "done"]
    /\ db = InitialRows(book)
    /\ rsrc = [r \in Runs |-> 1]
    /\ rmode = [r \in Runs |-> "none"]
    /\ rpc = [r \in Runs |-> "idle"]
    /\ ridx = [r \in Runs |-> 0]
    /\ tx = [r \in Runs |-> EmptyTx]
    /\ rres = [r \in Runs |-> "none"]
    /\ parsed = [r \in Runs |-> {}]
    /\ cancelImport = [s \in Sources |-> FALSE]
    /\ committed = [r \in Runs |-> {}]
    /\ reentry = [r \in Runs |-> "none"]
    /\ failedAt = [r \in Runs |-> "none"]

ImportNext ==
    \/ \E s \in Sources : StartNorm(1, s)
    \/ \E s \in Sources : StartLlm(1, s)
    \/ \E out \in LlmOutcomes : DistStep(1, out)
    \/ ImportDelete(1)
    \/ ImportPage(1)
    \/ TheoryStep(1)
    \/ \E link \in BOOLEAN, parts_raw \in PartsLists : LlmInsert(1, link, parts_raw)
    \/ Finish(1)
    \/ \E s \in Sources : CancelImportKeySet(s)
    \/ Fail(1)

SpecImport == ImportInit /\ [][ImportNext]_vars

(***************************************************************************)
(* The operator's cancel request for the LLM distribution (specification   *)
(* SpecCancelImport): jobs enqueued with enqueue_import_from_normalized    *)
(* and the handler debug.cancel_import_db.                                 *)
(***************************************************************************)
\* r.get("import_db_job_id:{pdf_source_id}") in cancel_import_db.
\* enqueue_import_from_normalized returns job.id without storing it (unlike
\* enqueue_llm_normalize, which does setex llm_norm_job_id:{id}), and nothing
\* else writes the key: the read finds no job id.
ImportJobIdStored(s) == FALSE

\* job.get_status() == "started" for the job of Source s
ImportStarted(s) ==
    \E r \in Runs : rsrc[r] = s /\ rmode[r] = "llm" /\ rpc[r] \in InFlight

\* debug.cancel_import_db for a Source whose job was enqueued and has started
\* or ended; ret holds the answer shown to the operator.
cancel_import_db(s) ==
    /\ \E r \in Runs : rsrc[r] = s /\ rmode[r] = "llm" /\ rpc[r] # "idle"
    /\ call' = [fn |-> "cancel_import_db", pdf_source_id |-> s,
                started |-> ImportStarted(s)]
    /\ IF ~ImportJobIdStored(s)
       THEN /\ ret' = [done |-> TRUE, msg |-> "no_job"]
            /\ UNCHANGED cancelImport
       ELSE IF ImportStarted(s)
       THEN /\ ret' = [done |-> TRUE, msg |-> "stop_requested"]
            /\ cancelImport' = [cancelImport EXCEPT ![s] = TRUE]
       ELSE /\ ret' = [done |-> TRUE, msg |-> "finished"]
            /\ UNCHANGED cancelImport
    /\ UNCHANGED <<book, npages, normExists, status, db, rsrc, rmode, rpc, ridx, tx, rres,
                   parsed, committed, reentry, failedAt, ckVars>>

CancelImportNext ==
    \/ \E s \in Sources : StartLlm(1, s)
    \/ \E out \in LlmOutcomes : DistStep(1, out)
    \/ ImportDelete(1)
    \/ \E link \in BOOLEAN, parts_raw \in PartsLists : LlmInsert(1, link, parts_raw)
    \/ Finish(1)
    \/ \E s \in Sources : cancel_import_db(s)
    \/ Fail(1)

SpecCancelImport == ImportInit /\ [][CancelImportNext]_vars

\* C30: a cancel request (cancel_import_db) for an LLM-distribution job that
\* was enqueued with enqueue_import_from_normalized and has started sets the
\* cancel flag that the job polls between paragraphs and batches.
C30_CancelRequestSetsFlag ==
    [][(call'.fn = "cancel_import_db" /\ call'.started /\ ret' # ret)
          => cancelImport'[call'.pdf_source_id]]_vars

(***************************************************************************)
(* One reanalysis of a Source (specification SpecReanalyze): a small       *)
(* Source, one with as many pages as the commit interval, or one with more.*)
(***************************************************************************)
ReanalyzeRows(n) ==
    UNION { {PageRow(1, i, 0), ProblemRow(1, i, 0, 0, 0)} : i \in 0 .. (n - 1) }
    \cup {TheoryRow(1, 1, 0, 1)}

ReanalyzeInit ==
    /\ CkIdle
    /\ FnIdle
    /\ book = [s \in Sources |-> s]
    /\ \E n \in {PagesPerSource, ReanalyzeCommitEvery, MaxReanalyzePages} :
          /\ npages = [s \in Sources |-> IF s = 1 THEN n ELSE 0]
          /\ normExists = [s \in Sources |-> s = 1]
          /\ db = ReanalyzeRows(n)
    /\ status = [s \in Sources |-> "done"]
    /\ rsrc = [r \in Runs |-> 1]
    /\ rmode = [r \in Runs |-> "none"]
    /\ rpc = [r \in Runs |-> "idle"]
    /\ ridx = [r \in Runs |-> 0]
    /\ tx = [r \in Runs |-> EmptyTx]
    /\ rres = [r \in Runs |-> "none"]
    /\ parsed = [r \in Runs |-> {}]
    /\ cancelImport = [s \in Sources |-> FALSE]
    /\ committed = [r \in Runs |-> {}]
    /\ reentry = [r \in Runs |-> "none"]
    /\ failedAt = [r \in Runs |-> "none"]

ReanalyzeNext ==
    \/ StartReanalyze(1, 1)
    \/ ReanalyzePage(1)
    \/ TheoryStep(1)
    \/ Finish(1)
    \/ Fail(1)

SpecReanalyze == ReanalyzeInit /\ [][ReanalyzeNext]_vars

(***************************************************************************)
(* Claims about the ingestion runs.                                        *)
(***************************************************************************)
\* C4: an LLM-distribution run that returned "cancelled" or "error"
\* (cancelled between paragraphs, no blocks from the LLM, or an exception
\* during the rewrite) has committed no deletion, insertion or update and
\* holds no pending change; when no other run started, the rows of the store
\* are those from before the run.
C4_LlmFailureCommitsNothing ==
    \A r \in Runs :
        (rmode[r] = "llm" /\ rres[r] \in {"cancelled", "error"}) =>
            /\ committed[r] = {}
            /\ tx[r] = EmptyTx
            /\ ((\A q \in Runs \ {r} : rpc[q] = "idle") => db = InitialRows(book))

\* An LLM-distribution run failed after its deletes and inserts were flushed.
C4_Witness ==
    \E r \in Runs :
        /\ rmode[r] = "llm" /\ rres[r] = "error" /\ failedAt[r] = "finish"
        /\ \A q \in Runs \ {r} : rpc[q] = "idle"

\* C5: after a reanalysis ended, the Problems of the Source are either all
\* the old ones or all re-segmented by the run; a failed run committed
\* nothing.
C5_ReanalyzeAllOrNothing ==
    \A r \in Runs :
        (rmode[r] = "reanalyze" /\ rpc[r] = "end") =>
            LET probs == { x \in db : x.tbl = "problem" /\ x.own = rsrc[r] }
            IN  \/ \A x \in probs : x.by = 0
                \/ \A x \in probs : x.by = r

\* C6: a process_pdf_source run that entered while another run of the same
\* Source was in flight with status rendering or ocr is at its re-entry test
\* or has returned "skipped", and has committed no Page or Problem change.
C6_ReentrySkipped ==
    \A r \in Runs :
        (rmode[r] = "full" /\ reentry[r] # "none") =>
            /\ rpc[r] = "check" \/ (rpc[r] = "end" /\ rres[r] = "skipped")
            /\ \A id \in committed[r] : id[1] = "source"

\* C7 as stated: runs of two different Sources commit changes to no common
\* row.
C7_NoSharedRows ==
    rsrc[1] # rsrc[2] => committed[1] \cap committed[2] = {}

\* C7, amended: runs of two different Sources share no PdfSource and no
\* PdfPage row, and no row at all when the Sources belong to different
\* Books; a common row is a SectionTheory row of the common Book, or a
\* Problem of that Book reached by the answer linking of an LLM distribution.
C7_SharedOnlyWithinBook ==
    rsrc[1] # rsrc[2] =>
        \A id \in committed[1] \cap committed[2] :
            /\ book[rsrc[1]] = book[rsrc[2]]
            /\ id[1] \in {"theory", "problem"}
            /\ id[1] = "problem" => "llm" \in {rmode[1], rmode[2]}

\* Two runs of different Sources of one Book both succeeded; each committed
\* Page rows and both changed one row.
C7_Witness ==
    /\ rsrc[1] # rsrc[2] /\ book[rsrc[1]] = book[rsrc[2]]
    /\ rres[1] = "success" /\ rres[2] = "success"
    /\ \A r \in Runs : \E id \in committed[r] : id[1] = "page"
    /\ committed[1] \cap committed[2] # {}

\* C21: the SectionTheory row of a (Book, section) accumulates theory across
\* Sources: the theory of a Source that the section holds is still held by a
\* row of that section after any step of a later run (field aux of a theory
\* row names the Source whose text the row holds).
C21_TheoryAccumulates ==
    [][\A x \in { t \in db : t.tbl = "theory" } :
          \E y \in { t \in db' : t.tbl = "theory" } :
              y.own = x.own /\ y.num = x.num /\ y.aux = x.aux]_vars

C11_FailedCallDoesNotEndRun ==
    \A r \in Runs : rmode[r] = "llm" => failedAt[r] # "dist"

\* C12: a job started for a Source without a normalized file has committed no
\* change of Pages, Problems or SectionTheory, and the Source's status is
\* "failed".
C12_MissingArtifactSetsFailed ==
    \A r \in Runs :
        failedAt[r] = "missing" =>
            /\ committed[r] = {}
            /\ status[rsrc[r]] = "failed"

\* C20: every stored Problem with has_parts = true has at least one
\* ProblemPart row.
C20_HasPartsHasPart ==
    \A q \in db : (q.tbl = "problem" /\ q.hp) => PartsOfProblem(db, q) # {}

(***************************************************************************)
(* Part III.  llm.structured.llm_call and llm_distribute.call_llm_paragraph*)
(* / call_llm_batch (specification SpecLlmCall).  An LLM response is a     *)
(* sequence of tokens: a code fence (written ~~~), the four JSON brackets, *)
(* and other text that is no JSON.                                         *)
(***************************************************************************)
RawChars == {"~~~", "{", "}", "[", "]", "x"}

RawResponses == UNION { [1 .. n -> RawChars] : n \in 0 .. MaxRawLen }

\* json.loads succeeds: one value, brackets properly nested
RECURSIVE Scan(_, _, _)
Scan(s, i, stack) ==
    IF i > Len(s) THEN stack = << >>
    ELSE IF s[i] \in {"{", "["}
         THEN (i = 1 \/ stack # << >>) /\ Scan(s, i + 1, Append(stack, s[i]))
    ELSE IF s[i] = "}"
         THEN /\ stack # << >>
              /\ stack[Len(stack)] = "{"
              /\ Scan(s, i + 1, SubSeq(stack, 1, Len(stack) - 1))
    ELSE IF s[i] = "]"
         THEN /\ stack # << >>
              /\ stack[Len(stack)] = "["
              /\ Scan(s, i + 1, SubSeq(stack, 1, Len(stack) - 1))
    ELSE FALSE

IsJson(s) == Len(s) > 0 /\ Scan(s, 1, << >>)

Count(s, c) == Cardinality({ i \in 1 .. Len(s) : s[i] = c })

Repeat(c, n) == [i \in 1 .. n |-> c]

\* the two re.sub calls on a text that starts with a code fence: the leading
\* fence goes, and the trailing one when the text ends with it
StripFence(raw) ==
    IF raw # << >> /\ Head(raw) = "~~~"
    THEN LET t == Tail(raw)
         IN  IF t # << >> /\ t[Len(t)] = "~~~" THEN SubSeq(t, 1, Len(t) - 1) ELSE t
    ELSE raw

repair_json(raw) ==
    IF raw = << >> THEN raw
    ELSE LET t             == StripFence(raw)
             open_braces   == Count(t, "{") - Count(t, "}")
             open_brackets == Count(t, "[") - Count(t, "]")
         IN  IF open_braces > 0 \/ open_brackets > 0
             THEN t \o Repeat("]", open_brackets) \o Repeat("}", open_braces)
             ELSE t

NoFile == [written |-> FALSE, text |-> << >>]

Outcome(kind, value, exc, requests, persisted, path) ==
    [done |-> TRUE, kind |-> kind, value |-> value, exc |-> exc,
     requests |-> requests, persisted |-> persisted, path |-> path]

LlmCalls ==
    [fn : {"llm_call", "call_llm_paragraph", "call_llm_batch"},
     dry_run : BOOLEAN, has_key : BOOLEAN, audit : BOOLEAN,
     api : {"ok", "raises"}, raw : RawResponses]

LlmCallInit ==
    /\ CkIdle
    /\ DbIdle
    /\ call \in { c \in LlmCalls :
                    /\ c.fn # "llm_call" => (~c.dry_run /\ ~c.audit)
                    /\ c.api = "raises" => c.raw = << >> }
    /\ ret = NoRet

\* llm_call(messages, parse_fn, audit_dir, audit_key, dry_run) with
\* parse_fn = json.loads
llm_call ==
    /\ call.fn = "llm_call"
    /\ ~ret.done
    /\ LET raw      == call.raw
           repaired == repair_json(raw)
       IN  ret' =
             IF call.dry_run THEN Outcome("None", << >>, "none", 0, NoFile, "None")
             ELSE IF ~call.has_key
                  THEN Outcome("raise", << >>, "LLMStructuredError", 0, NoFile, "None")
             ELSE IF call.api = "raises"
                  THEN Outcome("raise", << >>, "APIError", 1, NoFile, "None")
             ELSE IF raw = << >>
                  THEN Outcome("raise", << >>, "LLMStructuredError", 1, NoFile, "None")
             ELSE IF IsJson(raw)
                  THEN Outcome("parsed", raw, "none", 1, NoFile, "None")
             ELSE IF repaired # raw /\ IsJson(repaired)
                  THEN Outcome("parsed", repaired, "none", 1, NoFile, "None")
             ELSE IF call.audit
                  THEN Outcome("raise", << >>, "LLMStructuredError", 1,
                               [written |-> TRUE, text |-> raw], "audit_dir/audit_key")
             ELSE Outcome("raise", << >>, "LLMStructuredError", 1, NoFile, "None")
    /\ UNCHANGED <<call, ckVars, dbVars>>

\* call_llm_paragraph / call_llm_batch: the fence is stripped, json.loads is
\* tried once, a JSONDecodeError gives [], and data.get fails on a JSON list.
call_llm_blocks ==
    /\ call.fn \in {"call_llm_paragraph", "call_llm_batch"}
    /\ ~ret.done
    /\ LET raw == StripFence(call.raw)
       IN  ret' =
             IF ~call.has_key THEN Outcome("empty_list", << >>, "none", 0, NoFile, "None")
             ELSE IF call.api = "raises"
                  THEN Outcome("raise", << >>, "APIError", 1, NoFile, "None")
             ELSE IF ~IsJson(raw)
                  THEN Outcome("empty_list", << >>, "none", 1, NoFile, "None")
             ELSE IF Head(raw) = "["
                  THEN Outcome("raise", << >>, "AttributeError", 1, NoFile, "None")
             ELSE Outcome("parsed", raw, "none", 1, NoFile, "None")
    /\ UNCHANGED <<call, ckVars, dbVars>>

LlmCallNext == llm_call \/ call_llm_blocks

SpecLlmCall == LlmCallInit /\ [][LlmCallNext]_vars

\* C13: llm_call issues exactly one request and ends in one of three ways:
\* it returns parse_fn(raw); else it returns parse_fn(repair_json(raw)); else
\* it writes the raw response under the audit path and raises
\* LLMStructuredError with persisted_path the path of that file.
C13_OneRequestThreeEndings ==
    (call.fn = "llm_call" /\ ret.done) =>
        /\ ret.requests = 1
        /\ \/ IsJson(call.raw) /\ ret.kind = "parsed" /\ ret.value = call.raw
           \/ /\ ~IsJson(call.raw) /\ IsJson(repair_json(call.raw))
              /\ ret.kind = "parsed" /\ ret.value = repair_json(call.raw)
           \/ /\ ~IsJson(call.raw) /\ ~IsJson(repair_json(call.raw))
              /\ ret.kind = "raise" /\ ret.exc = "LLMStructuredError"
              /\ ret.persisted = [written |-> TRUE, text |-> call.raw]
              /\ ret.path = "audit_dir/audit_key"

\* C14: whenever the response of a request cannot be parsed, the call ends by
\* raising and the raw response is persisted; it never returns an empty or
\* substitute result.
C14_NoSilentDrop ==
    (/\ ret.done
     /\ ret.requests = 1
     /\ call.api = "ok"
     /\ ~IsJson(call.raw)
     /\ ~IsJson(IF call.fn = "llm_call" THEN repair_json(call.raw)
                ELSE StripFence(call.raw)))
        => /\ ret.kind = "raise"
           /\ ret.persisted = [written |-> TRUE, text |-> call.raw]

(***************************************************************************)
(* segmentation.answers.link_answers_to_problems (specification SpecLink). *)
(* The session is made with autoflush=False: an assignment to              *)
(* prob.answer_text stays in the session's object until the commit at the  *)
(* end, while every query filters on the rows of the database.  A text is  *)
(* << >> (empty), <<0>> (stored before the call) or <<i>> (the answer_text *)
(* of the i-th parsed answer).                                             *)
(***************************************************************************)
Numbers == {"1", "2"}

\* "#" stands for the paragraph sign of the section labels
ProblemSections == {"#1", "#2"}

ItemSections == {"", "1", "#2"}

LinkProblems == 1 .. NumLinkProblems

StoredProblems ==
    [LinkProblems -> [number : Numbers, section : ProblemSections,
                      answer_text : {<< >>, <<0>>}]]

AnswerItems == [number : Numbers, section : ItemSections, blank : BOOLEAN]

AnswerLists == UNION { [1 .. n -> AnswerItems] : n \in 0 .. MaxAnswers }

\* sec_val: the section with the paragraph sign put in front when it lacks it
SecVal(section) == IF section = "1" THEN "#1" ELSE section

LinkInit ==
    /\ CkIdle
    /\ DbIdle
    /\ \E ps \in StoredProblems, answers \in AnswerLists :
          /\ call = [fn |-> "link_answers_to_problems", problems |-> ps,
                     answers |-> answers]
          /\ ret = [done |-> FALSE, i |-> 1,
                    rows |-> [q \in LinkProblems |-> ps[q].answer_text],
                    objects |-> [q \in LinkProblems |-> ps[q].answer_text],
                    updated |-> 0, not_found |-> 0, replaced |-> FALSE]

\* the rows a query returns: the filter on answer_text reads the database
EmptyAnswerRows(number, sections) ==
    { q \in LinkProblems :
        /\ call.problems[q].number = number
        /\ ret.rows[q] = << >>
        /\ call.problems[q].section \in sections }

\* prob.answer_text = answer_text[:2000]; updated += 1
LinkWrite(q) ==
    ret' = [ret EXCEPT !.i = @ + 1,
                       !.objects[q] = <<ret.i>>,
                       !.updated = @ + 1,
                       !.replaced = @ \/ ret.objects[q] # << >>]

\* One iteration of the loop over answers.
LinkItem ==
    /\ call.fn = "link_answers_to_problems"
    /\ ~ret.done
    /\ ret.i <= Len(call.answers)
    /\ LET item      == call.answers[ret.i]
           sections  == IF item.section = "" THEN ProblemSections
                        ELSE {SecVal(item.section)}
           preferred == EmptyAnswerRows(item.number, sections)
           fallback  == EmptyAnswerRows(item.number, ProblemSections)
       IN  IF item.blank
           THEN ret' = [ret EXCEPT !.i = @ + 1]
           ELSE IF preferred # {}
           THEN \E q \in preferred : LinkWrite(q)
           ELSE IF fallback # {}
           THEN \E q \in fallback : LinkWrite(q)
           ELSE ret' = [ret EXCEPT !.i = @ + 1, !.not_found = @ + 1]
    /\ UNCHANGED <<call, ckVars, dbVars>>

\* if updated: db.commit(); return updated, not_found
LinkReturn ==
    /\ call.fn = "link_answers_to_problems"
    /\ ~ret.done
    /\ ret.i > Len(call.answers)
    /\ ret' = [ret EXCEPT !.done = TRUE,
                          !.rows = IF ret.updated > 0 THEN ret.objects ELSE @]
    /\ UNCHANGED <<call, ckVars, dbVars>>

LinkNext == LinkItem \/ LinkReturn

SpecLink == LinkInit /\ [][LinkNext]_vars

\* C15: link_answers_to_problems never replaces a non-empty answer_text:
\* neither one stored before the call nor one written earlier in the call.
C15_NeverReplacesAnswer ==
    call.fn = "link_answers_to_problems" =>
        /\ ~ret.replaced
        /\ \A q \in LinkProblems :
              call.problems[q].answer_text # << >>
                 => ret.rows[q] = call.problems[q].answer_text

(***************************************************************************)
(* segmentation.answers.parse_answers_from_text (SpecParseAnswers).        *)
(* A line is a sequence of tokens: "n" an answer number with its dot or    *)
(* bracket (a match of RE_ANSWER_NUM), "t" a run of other text, "s" a      *)
(* paragraph marker with its number.  The token j of line ln is named by   *)
(* the pair <<ln, j>>, so that an answer_text is the sequence of the names *)
(* of the text it holds.  None is << >> for a number and 0 for a section.  *)
(***************************************************************************)
LineTokens == {"n", "t", "s"}

AnswerLines == UNION { [1 .. n -> LineTokens] : n \in 0 .. MaxLineLen }

AnswerTexts == UNION { [1 .. n -> AnswerLines] : n \in 0 .. MaxLines }

\* RE_ANSWER_NUM.split(stripped) on the tokens from position j on: the
\* text before the first number, then every number followed by its text
RECURSIVE AnswerSplit(_, _, _, _)
AnswerSplit(line, ln, j, parts) ==
    IF j > Len(line) THEN parts
    ELSE IF line[j] = "n"
    THEN AnswerSplit(line, ln, j + 1, parts \o << <<ln, j>>, << >> >>)
    ELSE AnswerSplit(line, ln, j + 1,
                     [parts EXCEPT ![Len(parts)] = Append(@, <<ln, j>>)])

\* the value of i after "i = 1; while i + 1 < n: i += 2"
AfterPairs(n) == IF n % 2 = 1 THEN n ELSE n - 1

\* flush_answer(): the result list after it
Flushed(st) ==
    IF st.current_number # << >> /\ st.current_answer # << >>
    THEN Append(st.result, [number |-> st.current_number,
                            answer_text |-> st.current_answer,
                            section |-> st.current_section])
    ELSE st.result

\* the entries the while loop appends for parts, in order
RECURSIVE PairEntries(_, _, _)
PairEntries(parts, section, i) ==
    IF i + 1 >= Len(parts) + 1 THEN << >>
    ELSE (IF parts[i + 1] # << >>
          THEN << [number |-> parts[i], answer_text |-> parts[i + 1],
                   section |-> section] >>
          ELSE << >>) \o PairEntries(parts, section, i + 2)

ParseAnswersInit ==
    /\ CkIdle
    /\ DbIdle
    /\ \E text \in AnswerTexts :
          call = [fn |-> "parse_answers_from_text", lines |-> text]
    /\ ret = [done |-> FALSE, ln |-> 1, result |-> << >>,
              current_section |-> 0, current_number |-> << >>,
              current_answer |-> << >>]

\* One iteration of the loop over the lines.
ParseAnswersLine ==
    /\ call.fn = "parse_answers_from_text"
    /\ ~ret.done
    /\ ret.ln <= Len(call.lines)
    /\ LET ln       == ret.ln
           line     == call.lines[ln]
           marks    == { j \in 1 .. Len(line) : line[j] = "s" }
           first    == CHOOSE j \in marks : \A k \in marks : j <= k
           section  == IF marks # {} THEN ln ELSE ret.current_section
           from     == IF marks # {} THEN first + 1 ELSE 1
           parts    == AnswerSplit(line, ln, from, << << >> >>)
           n        == Len(parts)
           i        == AfterPairs(n)
           cont     == ret.current_number # << >> /\ parts[1] # << >>
           opened   == [ret EXCEPT !.current_answer =
                                      IF cont THEN @ \o parts[1] ELSE @]
           next     == [ret EXCEPT !.ln = @ + 1]
       IN  IF line = << >>
           THEN ret' = next
           ELSE IF line = <<"s">>
           THEN ret' = [next EXCEPT !.result = Flushed(ret),
                                    !.current_number = << >>,
                                    !.current_answer = << >>,
                                    !.current_section = ln]
           ELSE IF from > Len(line)
           THEN ret' = [next EXCEPT !.current_section = section]
           ELSE IF n = 1
           THEN ret' = [next EXCEPT !.current_section = section,
                                    !.current_answer =
                                        IF ret.current_number # << >>
                                        THEN @ \o parts[1] ELSE @]
           ELSE ret' = [next EXCEPT
                          !.current_section = section,
                          !.result = Flushed(opened)
                                       \o PairEntries(parts, section, 2),
                          !.current_number =
                              IF i < n /\ parts[i + 1] # << >>
                              THEN parts[i - 1] ELSE << >>,
                          !.current_answer =
                              IF i < n /\ parts[i + 1] # << >>
                              THEN parts[i + 1] ELSE << >>]
    /\ UNCHANGED <<call, ckVars, dbVars>>

\* flush_answer(); return result
ParseAnswersReturn ==
    /\ call.fn = "parse_answers_from_text"
    /\ ~ret.done
    /\ ret.ln > Len(call.lines)
    /\ ret' = [ret EXCEPT !.done = TRUE, !.result = Flushed(ret),
                          !.current_number = << >>,
                          !.current_answer = << >>]
    /\ UNCHANGED <<call, ckVars, dbVars>>

ParseAnswersNext == ParseAnswersLine \/ ParseAnswersReturn

SpecParseAnswers == ParseAnswersInit /\ [][ParseAnswersNext]_vars

\* the numbers of the line ln, as positions
NumbersOfLine(ln) ==
    { j \in 1 .. Len(call.lines[ln]) : call.lines[ln][j] = "n" }

\* C16: a non-empty line without an answer number that follows a line
\* opening a numbered answer is a continuation: the returned answer_text of
\* the last answer opened before it contains the text of the line.
C16_ContinuationExtendsAnswer ==
    (call.fn = "parse_answers_from_text" /\ ret.done) =>
        \A c \in 2 .. Len(call.lines) :
            (/\ call.lines[c] # << >>
             /\ \A j \in 1 .. Len(call.lines[c]) : call.lines[c][j] = "t"
             /\ NumbersOfLine(c - 1) # {})
            => LET last == CHOOSE j \in NumbersOfLine(c - 1) :
                              \A k \in NumbersOfLine(c - 1) : k <= j
               IN  \E e \in 1 .. Len(ret.result) :
                      /\ ret.result[e].number = <<c - 1, last>>
                      /\ \E x \in 1 .. Len(ret.result[e].answer_text) :
                            ret.result[e].answer_text[x] = <<c, 1>>

(***************************************************************************)
(* Segmentation of a page into problems: segment_problems (the copy in     *)
(* ingestion.py and the copy in segmentation/problems.py, which differ in  *)
(* their list of patterns) followed by _apply_multi_problem_split.         *)
(* A line is a sequence of tokens: "n" a number with its dot ("1."), "s" a *)
(* paragraph marker with its number and dot, "w" a short sentence of ten   *)
(* characters, "W" a sentence of thirty characters, "r" the word with its  *)
(* dot that opens a solution.  Tokens of a line are one space apart.  A    *)
(* text is a sequence of items [k, id]: k the token, or "nl" for a line    *)
(* break, id = <<line, position>>.                                         *)
(***************************************************************************)
PageTokens == {"n", "s", "w", "W", "r"}

Variants == {"ingestion", "segmentation"}

TokLen(k) ==
    CASE k = "n"  -> 2
      [] k = "s"  -> 3
      [] k = "w"  -> 10
      [] k = "W"  -> 30
      [] k = "r"  -> 8
      [] k = "nl" -> 1

RECURSIVE TextLen(_)
TextLen(t) ==
    IF t = << >> THEN 0
    ELSE TokLen(t[1].k) + TextLen(Tail(t))
         + (IF Len(t) > 1 /\ t[1].k # "nl" /\ t[2].k # "nl" THEN 1 ELSE 0)

\* str.strip() on a text: line breaks at both ends go
RECURSIVE StripText(_)
StripText(t) ==
    IF t = << >> THEN t
    ELSE IF t[1].k = "nl" THEN StripText(Tail(t))
    ELSE IF t[Len(t)].k = "nl" THEN StripText(SubSeq(t, 1, Len(t) - 1))
    ELSE t

LineItems(line, ln) == [j \in 1 .. Len(line) |-> [k |-> line[j], id |-> <<ln, j>>]]

NewLine(ln) == << [k |-> "nl", id |-> <<ln, 0>>] >>

RECURSIVE PageText(_, _)
PageText(lines, ln) ==
    IF ln > Len(lines) THEN << >>
    ELSE LineItems(lines[ln], ln)
         \o (IF ln < Len(lines) THEN NewLine(ln) ELSE << >>)
         \o PageText(lines, ln + 1)

\* RE_SOLUTION_START.search(stripped): anchored at the start of the line
IsSolutionStart(line) == line # << >> /\ line[1] = "r"

\* The first pattern of the list that matches the line: the id of the token
\* holding the number, << >> when no pattern matches.  The two patterns of
\* the paragraph marker are in the list of ingestion.py only and match
\* anywhere in the line; "N. " matches at the start of the line only and
\* needs text after it.
ProblemStart(variant, line, ln) ==
    LET marks == { j \in 1 .. Len(line) : line[j] = "s" }
    IN  IF variant = "ingestion" /\ marks # {}
        THEN <<ln, CHOOSE j \in marks : \A k \in marks : j <= k>>
        ELSE IF Len(line) > 1 /\ line[1] = "n" THEN <<ln, 1>>
        ELSE << >>

NewProblem(number, text) ==
    [number |-> number, text |-> StripText(text), solution_text |-> 0]

\* problems.append({...}) when current_problem and len(current_problem) > 20
WithCurrent(problems, st) ==
    IF st.current_problem # << >> /\ TextLen(st.current_problem) > MinProblemLen
    THEN Append(problems, NewProblem(st.current_number, st.current_problem))
    ELSE problems

\* problems[-1]["solution_text"] = sol when a solution is being collected;
\* a solution is named by the line that started it, 0 is None
WithSolution(st) ==
    IF st.solution_lines # 0 /\ st.problems # << >>
    THEN [st.problems EXCEPT ![Len(st.problems)].solution_text = st.solution_lines]
    ELSE st.problems

SegmentStart(lines) ==
    [done |-> FALSE, stage |-> "segment", ln |-> 1, problems |-> << >>,
     current_problem |-> << >>, current_number |-> << >>,
     solution_lines |-> 0, out |-> << >>]

SegLines(maxTokens) == UNION { [1 .. n -> PageTokens] : n \in 0 .. maxTokens }

SegmentInit ==
    /\ CkIdle
    /\ DbIdle
    /\ \E variant \in Variants, line \in SegLines(MaxSegTokens) :
          call = [fn |-> "extract_problems", variant |-> variant,
                  lines |-> <<line>>]
    /\ ret = SegmentStart(call.lines)

HeaderInit ==
    /\ CkIdle
    /\ DbIdle
    /\ \E variant \in Variants, n \in 1 .. MaxHeaderLines :
          \E lines \in [1 .. n -> SegLines(MaxHeaderTokens)] :
              call = [fn |-> "extract_problems", variant |-> variant,
                      lines |-> lines]
    /\ ret = SegmentStart(call.lines)

\* if not text or len(text.strip()) < 10: return []
SegmentShort ==
    /\ call.fn = "extract_problems"
    /\ ret.stage = "segment"
    /\ ret.ln = 1
    /\ TextLen(StripText(PageText(call.lines, 1))) < MinPageLen
    /\ ret' = [ret EXCEPT !.stage = "split", !.ln = Len(call.lines) + 1]
    /\ UNCHANGED <<call, ckVars, dbVars>>

\* One iteration of the loop of segment_problems over the lines.
SegmentLine ==
    /\ call.fn = "extract_problems"
    /\ ret.stage = "segment"
    /\ ret.ln <= Len(call.lines)
    /\ TextLen(StripText(PageText(call.lines, 1))) >= MinPageLen
    /\ LET ln     == ret.ln
           line   == call.lines[ln]
           items  == LineItems(line, ln)
           number == ProblemStart(call.variant, line, ln)
           next   == [ret EXCEPT !.ln = @ + 1]
       IN  IF line = << >>
           THEN ret' = [next EXCEPT !.current_problem =
                            IF @ # << >> /\ ret.solution_lines = 0
                            THEN @ \o NewLine(ln) ELSE @]
           ELSE IF IsSolutionStart(line)
           THEN ret' = [next EXCEPT !.problems = WithCurrent(@, ret),
                                    !.current_problem = << >>,
                                    !.current_number = << >>,
                                    !.solution_lines = ln]
           ELSE IF number # << >>
           THEN ret' = [next EXCEPT
                          !.problems = WithCurrent(WithSolution(ret), ret),
                          !.solution_lines = 0,
                          !.current_problem = items,
                          !.current_number = number]
           ELSE IF ret.solution_lines # 0
           THEN ret' = next
           ELSE ret' = [next EXCEPT !.current_problem =
                            IF @ # << >> THEN @ \o NewLine(ln) \o items
                            ELSE @]
    /\ UNCHANGED <<call, ckVars, dbVars>>

\* The end of segment_problems: the solution and the last problem.
SegmentEnd ==
    /\ call.fn = "extract_problems"
    /\ ret.stage = "segment"
    /\ ret.ln > Len(call.lines)
    /\ ret' = [ret EXCEPT !.stage = "split",
                          !.problems = WithCurrent(WithSolution(ret), ret),
                          !.current_problem = << >>,
                          !.current_number = << >>,
                          !.solution_lines = 0]
    /\ UNCHANGED <<call, ckVars, dbVars>>

\* RE_NUM_DOT.finditer(stripped): a number, its dot and white space after
\* it; the number of a paragraph marker matches as well
NumDotMatches(t) == { i \in 1 .. Len(t) - 1 : t[i].k \in {"n", "s"} }

\* stripped[start:end].strip(); a match inside a paragraph marker starts
\* after the sign
SegmentOf(t, i, matches) ==
    LET later == { m \in matches : m > i }
        end   == IF later = {} THEN Len(t)
                 ELSE (CHOOSE m \in later : \A l \in later : m <= l) - 1
    IN  StripText(SubSeq(t, i, end))

SegmentLen(seg) == TextLen(seg) - (IF seg[1].k = "s" THEN 1 ELSE 0)

RECURSIVE SplitFrom(_, _, _)
SplitFrom(t, i, matches) ==
    IF i > Len(t) THEN << >>
    ELSE (IF i \in matches
             /\ SegmentLen(SegmentOf(t, i, matches)) > MinSegmentLen
          THEN << [number |-> t[i].id, text |-> SegmentOf(t, i, matches)] >>
          ELSE << >>) \o SplitFrom(t, i + 1, matches)

split_multi_problem_line(text) ==
    LET stripped == StripText(text)
        matches  == NumDotMatches(stripped)
    IN  IF TextLen(stripped) < MinPageLen THEN << >>
        ELSE IF Cardinality(matches) <= 1
        THEN IF 1 \in matches /\ stripped[1].k = "n"
             THEN << [number |-> stripped[1].id, text |-> stripped] >>
             ELSE << >>
        ELSE SplitFrom(stripped, 1, matches)

RECURSIVE apply_multi_problem_split(_)
apply_multi_problem_split(problems) ==
    IF problems = << >> THEN << >>
    ELSE LET p     == problems[1]
             parts == split_multi_problem_line(p.text)
         IN  (IF Len(parts) <= 1 THEN <<p>>
              ELSE [x \in 1 .. Len(parts) |->
                      [number |-> parts[x].number, text |-> parts[x].text,
                       solution_text |-> p.solution_text]])
             \o apply_multi_problem_split(Tail(problems))

\* problems = _apply_multi_problem_split(problems); the page is returned
SplitProblems ==
    /\ call.fn = "extract_problems"
    /\ ret.stage = "split"
    /\ ~ret.done
    /\ ret' = [ret EXCEPT !.done = TRUE,
                          !.out = apply_multi_problem_split(ret.problems)]
    /\ UNCHANGED <<call, ckVars, dbVars>>

SegmentNext == SegmentShort \/ SegmentLine \/ SegmentEnd \/ SplitProblems

SpecSegment == SegmentInit /\ [][SegmentNext]_vars

SpecHeader == HeaderInit /\ [][SegmentNext]_vars

\* the "N. "-prefixed sentences of a line: a number followed by a sentence
NumberedSentences(line) ==
    { j \in 1 .. Len(line) - 1 : line[j] = "n" /\ line[j + 1] \in {"w", "W"} }

\* C17: a page holding exactly two "N. "-prefixed sentences on one line
\* yields exactly two problems, carrying those two numbers in text order.
C17_TwoSentencesTwoProblems ==
    (/\ call.fn = "extract_problems"
     /\ ret.done
     /\ Len(call.lines) = 1
     /\ Len(call.lines[1]) = 4
     /\ NumberedSentences(call.lines[1]) = {1, 3})
    => /\ Len(ret.out) = 2
       /\ ret.out[1].number = <<1, 1>>
       /\ ret.out[2].number = <<1, 3>>

\* the lines that start a problem and the lines that start a solution
StartLines ==
    { l \in 1 .. Len(call.lines) :
        /\ ~IsSolutionStart(call.lines[l])
        /\ ProblemStart(call.variant, call.lines[l], l) # << >> }

SolutionLines == { l \in 1 .. Len(call.lines) : IsSolutionStart(call.lines[l]) }

\* C26: the text collected after a solution-start line is attached as
\* solution_text to the problem that immediately precedes the line in the
\* page text, never to an earlier problem, and it is not lost when a
\* returned problem precedes it.
C26_SolutionGoesToPrecedingProblem ==
    (call.fn = "extract_problems" /\ ret.stage = "split") =>
        /\ \A x \in 1 .. Len(ret.problems) :
              LET sol == ret.problems[x].solution_text
              IN  sol # 0 =>
                     /\ ret.problems[x].number[1] < sol
                     /\ \A l \in StartLines :
                           ~(ret.problems[x].number[1] < l /\ l < sol)
        /\ \A sol \in SolutionLines :
              (\E x \in 1 .. Len(ret.problems) : ret.problems[x].number[1] < sol)
                 => \E x \in 1 .. Len(ret.problems) :
                        ret.problems[x].solution_text = sol

\* C18: segment_problems returns no problem whose text starts with a
\* paragraph marker, and a numbered line after the header still starts one.
C18_HeaderNeverStartsProblem ==
    (call.fn = "extract_problems" /\ ret.stage = "split") =>
        \A x \in 1 .. Len(ret.problems) : ret.problems[x].text[1].k # "s"

(***************************************************************************)
(* document_map.build (specification SpecMap).  The pages are given as one *)
(* sequence of items: a line, "pb" the break to the next page, or "gap" a  *)
(* run of blank pages.  The lines: "s" matches RE_PARAGRAPH, "f" matches   *)
(* RE_FALLBACK_PARAGRAPH, "z" matches RE_TASKS_BLOCK, "a" holds the word   *)
(* that _score_answers_page looks for, "c" matches RE_TOC, "i" matches     *)
(* RE_INDEX, "t" is a short line of other text, "b" is blank.              *)
(***************************************************************************)
MapLines == {"s", "f", "z", "a", "c", "i", "t", "b"}

MapItems == MapLines \cup {"pb", "gap"}

Documents == UNION { [1 .. n -> MapItems] : n \in 0 .. MaxMapItems }

Advance(item) == IF item = "pb" THEN 1 ELSE IF item = "gap" THEN BlankRun ELSE 0

\* page_num_1based of the item i
RECURSIVE PageOf(_, _)
PageOf(doc, i) == IF i <= 1 THEN 1 ELSE PageOf(doc, i - 1) + Advance(doc[i - 1])

\* total_pages = pages_data[-1][0]
TotalPages(doc) == PageOf(doc, Len(doc) + 1)

PageNumbers(doc) == { PageOf(doc, i) : i \in 1 .. Len(doc) + 1 }

\* the positions of the first n lines of the page, text.split("\n")[:n]
LinesOfPage(doc, page, n) ==
    LET on == { i \in 1 .. Len(doc) : doc[i] \in MapLines /\ PageOf(doc, i) = page }
    IN  { i \in on : Cardinality({ j \in on : j < i }) < n }

Span(type, section, start, end) ==
    [type |-> type, section |-> section, start_page |-> start, end_page |-> end]

\* current_paragraph = (sec, start, page_num_1based)
ExtendEnd_Keep(cur, page) == cur

ExtendEnd(cur, page) == [cur EXCEPT !.end_page = page]

\* the pages in ascending order, as a sequence
RECURSIVE SortedPages(_)
SortedPages(pages) ==
    IF pages = {} THEN << >>
    ELSE LET first == CHOOSE x \in pages : \A y \in pages : x <= y
         IN  <<first>> \o SortedPages(pages \ {first})

\* 2) one tasks_block span for every page holding a line of RE_TASKS_BLOCK
TasksSpans(doc) ==
    LET pages == SortedPages({ PageOf(doc, i) : i \in { j \in 1 .. Len(doc) : doc[j] = "z" } })
    IN  [x \in 1 .. Len(pages) |-> Span("tasks_block", 0, pages[x], pages[x])]

\* _score_answers_page, in thousandths
ScoreAnswersPage(doc, page) ==
    LET total == TotalPages(doc)
    IN  IF total < 10 \/ \A i \in LinesOfPage(doc, page, 8) : doc[i] # "a"
        THEN 0
        ELSE IF 2 * page < total THEN 300
        ELSE IF 100 * page >= 85 * total THEN 950
        ELSE 500 + (450 * (((1000 * page) \div total) - 500)) \div 350

\* 3) the first page of the best score, when the score reaches a half
AnswersSpans(doc) ==
    LET pages == PageNumbers(doc)
        best  == CHOOSE x \in pages :
                     \A y \in pages :
                        \/ ScoreAnswersPage(doc, y) < ScoreAnswersPage(doc, x)
                        \/ ScoreAnswersPage(doc, y) = ScoreAnswersPage(doc, x) /\ x <= y
    IN  IF ScoreAnswersPage(doc, best) >= 500
        THEN << Span("answers", 0, best, TotalPages(doc)) >>
        ELSE << >>

\* _score_toc_page(text) >= 0.8: five lines or more, three of them numbered
IsTocPage(doc, page) ==
    LET lines == { i \in LinesOfPage(doc, page, Len(doc)) : doc[i] # "b" }
    IN  /\ Cardinality(lines) >= 5
        /\ Cardinality({ i \in lines : doc[i] \in {"s", "f"} }) >= 3

\* 4) the first page that scores as a table of contents, else the first
\* page with a line of RE_TOC among its first five lines
TocSpans(doc) ==
    LET scored == { q \in PageNumbers(doc) : q <= 20 /\ IsTocPage(doc, q)
                      /\ \A y \in PageNumbers(doc) : y < q => y <= 20 }
        named  == { q \in PageNumbers(doc) :
                      \E i \in LinesOfPage(doc, q, 5) : doc[i] = "c" }
    IN  IF scored # {}
        THEN << Span("toc", 0, SortedPages(scored)[1], SortedPages(scored)[1]) >>
        ELSE IF named # {}
        THEN << Span("toc", 0, SortedPages(named)[1], SortedPages(named)[1]) >>
        ELSE << >>

\* 5) the first page near the end with a line of RE_INDEX
IndexSpans(doc) ==
    LET named == { q \in PageNumbers(doc) :
                      /\ q >= TotalPages(doc) - 20
                      /\ \E i \in LinesOfPage(doc, q, 5) : doc[i] = "i" }
    IN  IF named # {}
        THEN << Span("index", 0, SortedPages(named)[1], TotalPages(doc)) >>
        ELSE << >>

\* 6) the pages before the first paragraph or table of contents
WithFrontMatter(doc, spans) ==
    LET starts == { spans[x].start_page : x \in { y \in 1 .. Len(spans) :
                                   spans[y].type \in {"paragraph", "toc"} } }
        first_content == IF starts = {} THEN TotalPages(doc) + 1
                         ELSE SortedPages(starts)[1]
    IN  IF first_content > 1
        THEN << Span("front_matter", 0, 1, first_content - 1) >> \o spans
        ELSE spans

MapInit ==
    /\ CkIdle
    /\ DbIdle
    /\ \E doc \in Documents : call = [fn |-> "build", pages_data |-> doc]
    /\ ret = [done |-> FALSE, i |-> 1, spans |-> << >>,
              current_paragraph |-> << >>, prev_blank |-> TRUE]

\* if not pages_data: return the map with no spans
BuildEmpty ==
    /\ call.fn = "build"
    /\ ~ret.done
    /\ call.pages_data = << >>
    /\ ret' = [ret EXCEPT !.done = TRUE]
    /\ UNCHANGED <<call, ckVars, dbVars>>

\* 1) One line of the loop over the pages and their lines, or the end of a
\* page.
BuildLine ==
    /\ call.fn = "build"
    /\ ~ret.done
    /\ ret.i <= Len(call.pages_data)
    /\ LET doc  == call.pages_data
           item == doc[ret.i]
           page == PageOf(doc, ret.i)
           cur  == ret.current_paragraph
           next == [ret EXCEPT !.i = @ + 1]
           opened == IF item = "f" /\ ret.prev_blank /\ cur = << >>
                     THEN Span("paragraph", ret.i, page, page) ELSE cur
       IN  IF item \in {"pb", "gap", "b"}
           THEN ret' = [next EXCEPT !.prev_blank = TRUE]
           ELSE IF item = "s"
           THEN ret' = [next EXCEPT
                          !.spans = IF cur # << >> THEN Append(@, cur) ELSE @,
                          !.current_paragraph = Span("paragraph", ret.i, page, page),
                          !.prev_blank = FALSE]
           ELSE ret' = [next EXCEPT
                          !.current_paragraph =
                              IF opened # << >> THEN ExtendEnd(opened, page)
                              ELSE opened,
                          !.prev_blank = FALSE]
    /\ UNCHANGED <<call, ckVars, dbVars>>

\* The last paragraph span and the passes 2) to 6); the map is returned.
BuildFinish ==
    /\ call.fn = "build"
    /\ ~ret.done
    /\ call.pages_data # << >>
    /\ ret.i > Len(call.pages_data)
    /\ LET doc == call.pages_data
           paragraphs == IF ret.current_paragraph # << >>
                         THEN Append(ret.spans, ret.current_paragraph)
                         ELSE ret.spans
       IN  ret' = [ret EXCEPT
                     !.done = TRUE,
                     !.current_paragraph = << >>,
                     !.spans = WithFrontMatter(doc,
                                  paragraphs \o TasksSpans(doc)
                                  \o AnswersSpans(doc) \o TocSpans(doc)
                                  \o IndexSpans(doc))]
    /\ UNCHANGED <<call, ckVars, dbVars>>

MapNext == BuildEmpty \/ BuildLine \/ BuildFinish

SpecMap == MapInit /\ [][MapNext]_vars

\* the positions of the header lines of the document, in order
Headers(doc) == SortedPages({ i \in 1 .. Len(doc) : doc[i] = "s" })

\* the last page holding a line of the paragraph opened at position h
LastPageOf(doc, h) ==
    LET later == { i \in 1 .. Len(doc) : i > h /\ doc[i] = "s" }
        stop  == IF later = {} THEN Len(doc) + 1 ELSE SortedPages(later)[1]
        held  == { PageOf(doc, i) : i \in { j \in h .. stop - 1 : doc[j] \in {"s", "t"} } }
    IN  CHOOSE q \in held : \A y \in held : y <= q

SpansOfType(type) == SelectSeq(ret.spans, LAMBDA sp : sp.type = type)

HeadersOnly ==
    /\ call.fn = "build"
    /\ ret.done
    /\ \A i \in 1 .. Len(call.pages_data) :
          call.pages_data[i] \in {"s", "t", "b", "pb", "gap"}
    /\ \E i \in 1 .. Len(call.pages_data) : call.pages_data[i] = "s"

Digits == 0 .. 9

NumberingInit ==
    /\ CkIdle
    /\ DbIdle
    /\ \E nums \in UNION { [1 .. n -> Digits] : n \in 0 .. MaxEnums } :
          /\ call = [fn |-> "fix_numbering_in_context", nums |-> nums]
          /\ ret = [done |-> FALSE, i |-> 1, result |-> nums, expected_num |-> 0 - 1]

\* if len(matches) < 2: return text
FixShort ==
    /\ call.fn = "fix_numbering_in_context"
    /\ ~ret.done
    /\ Len(call.nums) < 2
    /\ ret' = [ret EXCEPT !.done = TRUE]
    /\ UNCHANGED <<call, ckVars, dbVars>>

\* One iteration of the loop over the matches.
FixMatch ==
    /\ call.fn = "fix_numbering_in_context"
    /\ ~ret.done
    /\ Len(call.nums) >= 2
    /\ ret.i <= Len(call.nums)
    /\ LET current_num  == call.nums[ret.i]
           expected_num == ret.expected_num
           far == \/ current_num - expected_num > 1
                  \/ expected_num - current_num > 1
       IN  IF expected_num = 0 - 1
           THEN ret' = [ret EXCEPT !.i = @ + 1, !.expected_num = current_num + 1]
           ELSE ret' = [ret EXCEPT
                          !.i = @ + 1,
                          !.result[ret.i] =
                              IF current_num # expected_num /\ expected_num <= 9 /\ far
                              THEN expected_num ELSE @,
                          !.expected_num =
                              IF current_num = expected_num THEN current_num + 1
                              ELSE expected_num + 1]
    /\ UNCHANGED <<call, ckVars, dbVars>>

FixReturn ==
    /\ call.fn = "fix_numbering_in_context"
    /\ ~ret.done
    /\ Len(call.nums) >= 2
    /\ ret.i > Len(call.nums)
    /\ ret' = [ret EXCEPT !.done = TRUE]
    /\ UNCHANGED <<call, ckVars, dbVars>>

NumberingNext == FixShort \/ FixMatch \/ FixReturn

SpecNumbering == NumberingInit /\ [][NumberingNext]_vars

\* C24: the numbering repair changes at most one enumerator, and only one
\* whose value differs by more than 1 from the value that follows its
\* predecessor; a list that restarts at 1 is returned unchanged.
C24_AtMostOneRepair ==
    (call.fn = "fix_numbering_in_context" /\ ret.done) =>
        LET changed == { i \in 1 .. Len(call.nums) : ret.result[i] # call.nums[i] }
        IN  /\ Cardinality(changed) <= 1
            /\ \A i \in changed :
                  /\ i > 1
                  /\ \/ call.nums[i] - (call.nums[i - 1] + 1) > 1
                     \/ (call.nums[i - 1] + 1) - call.nums[i] > 1
            /\ (\E i \in 2 .. Len(call.nums) :
                    call.nums[i] = 1 /\ call.nums[i - 1] > 1) => changed = {}

(***************************************************************************)
(* ocr_files.strip_page_headers_footers (specification SpecStrip).         *)
(* A line is "h" (it matches a header or footer pattern: class label, bare *)
(* page number, short run of digits), "e" (it starts an enumeration), "t"  *)
(* (other text) or "b" (blank).  The result is the sequence of the         *)
(* positions of the lines that are returned.                               *)
(***************************************************************************)
StripLines == {"h", "e", "t", "b"}

\* top_indices and bottom_indices, for positions counted from 1
InZone_All(i, len, n) == TRUE

InZone(i, len, n) ==
    \/ i <= n
    \/ len > 2 * n /\ i > len - n

\* "\n".join(result).strip(): blank lines at both ends go
RECURSIVE StripBlank(_, _)
StripBlank(lines, kept) ==
    IF kept = << >> THEN kept
    ELSE IF lines[kept[1]] = "b" THEN StripBlank(lines, Tail(kept))
    ELSE IF lines[kept[Len(kept)]] = "b"
    THEN StripBlank(lines, SubSeq(kept, 1, Len(kept) - 1))
    ELSE kept

StripInit ==
    /\ CkIdle
    /\ DbIdle
    /\ \E lines \in UNION { [1 .. k -> StripLines] : k \in 1 .. MaxStripLines },
          n \in (0 - 1) .. MaxZone :
          /\ call = [fn |-> "strip_page_headers_footers", lines |-> lines,
                     top_bottom_n |-> n]
          /\ ret = [done |-> FALSE, i |-> 1, result |-> << >>, stripped_count |-> 0]

\* if not (text or "").strip(): return text or ""
StripBlankPage ==
    /\ call.fn = "strip_page_headers_footers"
    /\ ~ret.done
    /\ \A i \in 1 .. Len(call.lines) : call.lines[i] = "b"
    /\ ret' = [ret EXCEPT !.done = TRUE,
                          !.result = [i \in 1 .. Len(call.lines) |-> i]]
    /\ UNCHANGED <<call, ckVars, dbVars>>

\* One iteration of the loop over the lines.
StripLine ==
    /\ call.fn = "strip_page_headers_footers"
    /\ ~ret.done
    /\ \E i \in 1 .. Len(call.lines) : call.lines[i] # "b"
    /\ ret.i <= Len(call.lines)
    /\ LET i    == ret.i
           line == call.lines[i]
           n    == IF call.top_bottom_n > 0 THEN call.top_bottom_n ELSE 0
       IN  IF line # "b" /\ InZone(i, Len(call.lines), n) /\ line # "e" /\ line = "h"
           THEN ret' = [ret EXCEPT !.i = @ + 1, !.stripped_count = @ + 1]
           ELSE ret' = [ret EXCEPT !.i = @ + 1, !.result = Append(@, i)]
    /\ UNCHANGED <<call, ckVars, dbVars>>

\* return "\n".join(result).strip()
StripReturn ==
    /\ call.fn = "strip_page_headers_footers"
    /\ ~ret.done
    /\ \E i \in 1 .. Len(call.lines) : call.lines[i] # "b"
    /\ ret.i > Len(call.lines)
    /\ ret' = [ret EXCEPT !.done = TRUE, !.result = StripBlank(call.lines, @)]
    /\ UNCHANGED <<call, ckVars, dbVars>>

StripNext == StripBlankPage \/ StripLine \/ StripReturn

SpecStrip == StripInit /\ [][StripNext]_vars

\* the positions of the lines that the call did not return
StripRemoved == { i \in 1 .. Len(call.lines) :
                    \A x \in 1 .. Len(ret.result) : ret.result[x] # i }

\* a line of a header or footer pattern within the first n or last n lines
StripHeaderInZone(i) ==
    /\ call.lines[i] = "h"
    /\ \/ i <= call.top_bottom_n
       \/ i > Len(call.lines) - call.top_bottom_n

\* C25 as stated: a line is removed only if it is within the first n or the
\* last n lines, matches a header or footer pattern and starts no
\* enumeration; every other line is kept, in its original order.
C25_OnlyZoneHeadersRemoved ==
    (call.fn = "strip_page_headers_footers" /\ ret.done) =>
        /\ \A i \in StripRemoved : StripHeaderInZone(i)
        /\ \A x \in 1 .. Len(ret.result) - 1 : ret.result[x] < ret.result[x + 1]

\* C25, amended: a line that is not blank is removed only if it is within
\* the first n or the last n lines and matches a header or footer pattern;
\* a blank line is removed only when no returned line that is not blank lies
\* before it, or none after it; the returned lines keep their order.
C25_OnlyZoneHeadersAndEndBlanksRemoved ==
    (call.fn = "strip_page_headers_footers" /\ ret.done) =>
        /\ \A i \in StripRemoved :
              \/ StripHeaderInZone(i)
              \/ /\ call.lines[i] = "b"
                 /\ \/ \A x \in 1 .. Len(ret.result) : ret.result[x] > i
                    \/ \A x \in 1 .. Len(ret.result) : ret.result[x] < i
        /\ \A x \in 1 .. Len(ret.result) - 1 : ret.result[x] < ret.result[x + 1]

\* A header in the top zone was removed, the same kind of line in the middle
\* of the page was kept, and a blank line at the end was dropped.
C25_Witness ==
    /\ call.fn = "strip_page_headers_footers" /\ ret.done
    /\ call.top_bottom_n = 1
    /\ call.lines = <<"h", "h", "t", "b">>
    /\ ret.result = <<2, 3>>

(***************************************************************************)
(* llm_distribute.distribute_batches, the mode by blocks (SpecBlocks).     *)
(* preprocess_blocks and merge_short_theory_blocks number the blocks 1, 2, *)
(* ... over the whole Source; page_num[i] is the page of block i.  A       *)
(* response is the set of the block_id values of its parsed blocks, taken  *)
(* in ascending order; _page_num 0 stands for a missing key.               *)
(***************************************************************************)
BlocksInit ==
    /\ CkIdle
    /\ DbIdle
    /\ \E n \in 1 .. MaxBlocks, batch_size_ \in 1 .. MaxBlocks :
          \E page_num \in [1 .. n -> 1 .. 2] :
              /\ \A i \in 1 .. n - 1 : page_num[i] <= page_num[i + 1]
              /\ call = [fn |-> "distribute_batches", page_num |-> page_num,
                         batch_size |-> batch_size_]
    /\ ret = [done |-> FALSE, batch_idx |-> 0, all_parsed |-> << >>,
              cancelled |-> FALSE]

\* the block_id values of the batch blocks[start : start + batch_size]
BatchBlocks(batch_idx_) ==
    { i \in 1 .. Len(call.page_num) :
        /\ i > batch_idx_ * call.batch_size
        /\ i <= (batch_idx_ + 1) * call.batch_size }

\* if bid is not None and 1 <= bid <= len(batch): the page of the block of
\* the batch with that block_id
BlockPage(bid, batch) ==
    IF 1 <= bid /\ bid <= Cardinality(batch) /\ bid \in batch
    THEN call.page_num[bid] ELSE 0

\* One iteration of the loop over the batches: the cancel test, the request
\* and the page numbers of the parsed blocks.
BlockBatch(cancel, resp) ==
    /\ call.fn = "distribute_batches"
    /\ ~ret.done
    /\ ret.batch_idx * call.batch_size < Len(call.page_num)
    /\ IF cancel
       THEN ret' = [ret EXCEPT !.done = TRUE, !.cancelled = TRUE, !.all_parsed = << >>]
       ELSE LET batch   == BatchBlocks(ret.batch_idx)
                ordered == SortedPages(resp)
            IN  ret' = [ret EXCEPT
                          !.batch_idx = @ + 1,
                          !.all_parsed = @ \o
                              [x \in 1 .. Len(ordered) |->
                                 [block_id |-> ordered[x], batch |-> ret.batch_idx,
                                  _page_num |-> BlockPage(ordered[x], batch)]]]
    /\ UNCHANGED <<call, ckVars, dbVars>>

\* return all_parsed
BlocksReturn ==
    /\ call.fn = "distribute_batches"
    /\ ~ret.done
    /\ ret.batch_idx * call.batch_size >= Len(call.page_num)
    /\ ret' = [ret EXCEPT !.done = TRUE]
    /\ UNCHANGED <<call, ckVars, dbVars>>

BlocksNext ==
    \/ \E cancel \in BOOLEAN, resp \in SUBSET (1 .. MaxBlocks) : BlockBatch(cancel, resp)
    \/ BlocksReturn

SpecBlocks == BlocksInit /\ [][BlocksNext]_vars

\* C27: in the mode by blocks, for every batch, each parsed block whose
\* block_id is the block_id of a block of the batch just sent carries the
\* page number of that block as _page_num.
C27_ParsedBlockCarriesPage ==
    call.fn = "distribute_batches" =>
        \A x \in 1 .. Len(ret.all_parsed) :
            LET p == ret.all_parsed[x]
            IN  p.block_id \in BatchBlocks(p.batch)
                   => p._page_num = call.page_num[p.block_id]

=============================================================================
